---- MODULE Spec2Model ----
(***************************************************************************)
(* ECF-TST forest cover loss: a model of the two Earth Engine scripts.     *)
(*                                                                         *)
(*   - the training script (src/unnamed/part_001): the hyperparameter grid,*)
(*     evaluateParams (filter, parse, split, class balancing) and the grid *)
(*     search that maps evaluateParams over the grid;                      *)
(*   - the mapping script (src/Code/ECF_TST_Annual_FCL_Mapping.js):        *)
(*     calculateAnnualFeatures for one pixel of one index band.            *)
(*                                                                         *)
(* Stages modelled on their own, each with its specification: the          *)
(* conversion of a batch of samples (SpecParse), the scoring of a held-out *)
(* pool (SpecScore), the first-order texture of a band (SpecTexture), the  *)
(* spectral indices of a composite (SpecIndex), the feature assembly       *)
(* (SpecAssemble), classification and smoothing (SpecSmooth).              *)
(*                                                                         *)
(* Earth Engine values are lazy: a statement of the script builds a value  *)
(* that is either a proper value or an error raised when it is computed.   *)
(* Both are records: [ok |-> TRUE, v |-> value], [ok |-> FALSE, v |-> msg].*)
(* A JavaScript exception, in contrast, stops the script where it is       *)
(* thrown.                                                                 *)
(***************************************************************************)
EXTENDS Integers, Sequences, FiniteSets, TLC

VARIABLES
    \* ---- training script ----
    sampledPoints,      \* the region's sample-point library (read only)
    prngStream,         \* which pseudo-random stream the platform uses
    pc,                 \* position of the training script
    run,                \* how many times the script has been run
    allCombinations,    \* the flattened grid, or NullValue before line 170
    completeSamples,    \* line 251
    seedUsed,           \* seed given to randomColumn, per iteration
    trainingOriginal,   \* line 258, per iteration
    testingSet,         \* line 259, per iteration
    classSizesDict,     \* line 266, per iteration
    multipliers,        \* lines 272-274, per iteration: <<m1, m2, m3>>
    oversampledClass1,  \* line 276, per iteration
    oversampledClass2,  \* line 277, per iteration
    results,            \* line 337: the Evaluation Records
    exported,           \* line 348: the collection handed to Export.table
    thrown,             \* the uncaught JavaScript exception, if any
    steps,              \* the steps of evaluateParams that have run
    prevSplit,          \* the pools of the previous run of the script
    \* ---- mapping script: one pixel of one index band ----
    mpc,                \* position of the mapping script
    TARGET_YEAR,        \* line 49
    band,               \* the index band looked at
    tsCollection,       \* line 624: the pixel's value in each yearly image
    inAoi,              \* the pixel lies in the region geometry
    isForest,           \* the pixel is forest in the baseline cover map
    imgTarget,          \* line 488
    imgPrev1,           \* line 489
    histCollection_3y,  \* line 493
    histCollection_5y,  \* line 501
    histCollection,     \* line 508
    bands,              \* the feature bands built so far, by suffix
    result,             \* line 546: the image calculateAnnualFeatures returns
    \* ---- training script: convertToFloat on a batch of samples ----
    ppc,                \* position of the conversion
    rawSamples,         \* the samples as stored: every property a string
    converted,          \* line 253: the batch mapped through convertToFloat
    completeBatch,      \* line 254: the batch after the quality filter
    \* ---- mapping script: first-order texture of one reflectance band ----
    tpc,                \* position of the texture extraction
    srBand,             \* the reflectance band looked at
    srImage,            \* line 629: the target composite, pixel by pixel
    textureFeatures1,   \* line 630
    \* ---- mapping script: feature assembly ----
    apc,                \* position of the assembly
    optimalFeatures,    \* line 266: the requested feature names
    fullFeatureImage,   \* line 639
    selectedFeatures,   \* line 645
    pixelsComputed,     \* whether the platform has computed pixels of it
    reported,           \* the error the platform reports, if any
    \* ---- mapping script: classification and smoothing ----
    spc,                \* position of the post-processing
    forestMask,         \* line 168, pixel by pixel
    prediction,         \* the class the loaded model gives each pixel
    modeTie,            \* which of several most frequent values a mode is
    classified,         \* line 658
    smoothed,           \* line 661
    \* ---- training script: scoring of one held-out pool ----
    scpc,               \* position of the scoring
    testFeatures,       \* line 305: the held-out samples
    testClassification, \* line 306: the class predicted for each of them
    confusionMatrix,    \* line 307
    scores,             \* lines 320-321: overall_accuracy and kappa
    \* ---- mapping script: the spectral indices of one pixel ----
    ipc,                \* position of the index calculation
    composite,          \* a yearly composite at the pixel, band by band
    zeroSum,            \* what normalizedDifference gives where a + b = 0
    withIndices         \* line 343: the image addIndices returns

trainVars == <<sampledPoints, prngStream, pc, run, allCombinations,
               completeSamples, seedUsed, trainingOriginal, testingSet,
               classSizesDict, multipliers, oversampledClass1,
               oversampledClass2, results, exported, thrown, steps,
               prevSplit>>

mapVars == <<mpc, TARGET_YEAR, band, tsCollection, inAoi, isForest, imgTarget,
             imgPrev1, histCollection_3y, histCollection_5y, histCollection,
             bands, result>>

parseVars == <<ppc, rawSamples, converted, completeBatch>>

textureVars == <<tpc, srBand, srImage, textureFeatures1>>

assembleVars == <<apc, optimalFeatures, fullFeatureImage, selectedFeatures,
                  pixelsComputed, reported>>

smoothVars == <<spc, forestMask, prediction, modeTie, classified, smoothed>>

\* the variables of the stages modelled on their own
scoreVars == <<scpc, testFeatures, testClassification, confusionMatrix,
               scores>>

indexVars == <<ipc, composite, zeroSum, withIndices>>

stageVars == <<parseVars, textureVars, assembleVars, smoothVars, scoreVars,
               indexVars>>

vars == <<trainVars, mapVars, stageVars>>

NullValue == "null"

Ok(x) == [ok |-> TRUE, v |-> x]
Err(msg) == [ok |-> FALSE, v |-> msg]

-----------------------------------------------------------------------------
(* Bounds of the model                                                     *)

NumSamples == 3        \* size of the sample-point library
NumTargetSizes == 2    \* m: members of targetSizesGrid
NumRfParams == 2       \* n: members of rfParamsGrid
NumPrngStreams == 2    \* pseudo-random streams tried
MaxRuns == 2           \* runs of the training script
MaxTargetYear == 2005  \* target years START_YEAR..MaxTargetYear are tried

-----------------------------------------------------------------------------
(* Rational numbers <<numerator, denominator>>, denominator > 0, reduced   *)

RECURSIVE Gcd(_, _)
Gcd(a, b) == IF b = 0 THEN a ELSE Gcd(b, a % b)

Abs(x) == IF x < 0 THEN -x ELSE x

Rat(n, d) ==
    LET g == Gcd(Abs(n), Abs(d))
        s == IF d < 0 THEN -1 ELSE 1
    IN  <<(s * n) \div g, (s * d) \div g>>

RatMul(a, b) == Rat(a[1] * b[1], a[2] * b[2])

\* round half away from zero, as ee.Number.round
RatRound(a) ==
    IF a[1] >= 0 THEN (2 * a[1] + a[2]) \div (2 * a[2])
    ELSE -((2 * (-a[1]) + a[2]) \div (2 * a[2]))

RatAdd(a, b) == Rat(a[1] * b[2] + b[1] * a[2], a[2] * b[2])

RatSub(a, b) == Rat(a[1] * b[2] - b[1] * a[2], a[2] * b[2])

RatDiv(a, b) == Rat(a[1] * b[2], a[2] * b[1])

RatAbs(a) == <<Abs(a[1]), a[2]>>

RatLess(a, b) == a[1] * b[2] < b[1] * a[2]

RatMax(a, b) == IF RatLess(a, b) THEN b ELSE a

RECURSIVE ISqrt(_, _)
\* the largest k >= from with k * k <= n, for n >= from * from
ISqrt(n, from) == IF (from + 1) * (from + 1) > n THEN from ELSE ISqrt(n, from + 1)

RatMax0(a) == IF a[1] < 0 THEN <<0, 1>> ELSE a

-----------------------------------------------------------------------------
(* Sequences as Earth Engine collections and lists                         *)

RECURSIVE Flatten(_)
Flatten(ss) == IF ss = <<>> THEN <<>> ELSE Head(ss) \o Flatten(Tail(ss))

RECURSIVE InsertByOversample(_, _)
InsertByOversample(x, s) ==
    IF s = <<>> THEN <<x>>
    ELSE IF x.oversample < Head(s).oversample THEN <<x>> \o s
         ELSE <<Head(s)>> \o InsertByOversample(x, Tail(s))

RECURSIVE SortByOversample(_)
\* stable ascending sort on the 'oversample' column
SortByOversample(s) ==
    IF s = <<>> THEN <<>>
    ELSE InsertByOversample(s[Len(s)], SortByOversample(SubSeq(s, 1, Len(s) - 1)))

Min(a, b) == IF a < b THEN a ELSE b

\* collection.limit(max): at most max elements, never more than there are
Limit(s, max) == SubSeq(s, 1, Min(max, Len(s)))

-----------------------------------------------------------------------------
(* 1-3. Configuration and the hyperparameter grid                          *)

ECO_ZONE_ID == 1

\* Class targets of the grid. The shipped grid holds 9 triples of 400..800
\* samples; the model keeps the shape (a list of triples for classes 1..3)
\* with targets scaled to the size of the bounded library, so that a target
\* can be below, above and more than twice above a class size.
targetSizesGrid == [k \in 1..NumTargetSizes |-> <<2 * k - 1, k, k + 1>>]

\* The shipped ensemble grid, fractions in percent.
rfParamsShipped ==
    << [trees |-> 50,  leafPop |-> 1, bagFrac |-> 50, splitVar |-> 50],
       [trees |-> 50,  leafPop |-> 1, bagFrac |-> 70, splitVar |-> 70],
       [trees |-> 50,  leafPop |-> 2, bagFrac |-> 60, splitVar |-> 60],
       [trees |-> 100, leafPop |-> 1, bagFrac |-> 50, splitVar |-> 70],
       [trees |-> 100, leafPop |-> 2, bagFrac |-> 60, splitVar |-> 60],
       [trees |-> 100, leafPop |-> 5, bagFrac |-> 70, splitVar |-> 50],
       [trees |-> 150, leafPop |-> 2, bagFrac |-> 70, splitVar |-> 50],
       [trees |-> 150, leafPop |-> 5, bagFrac |-> 50, splitVar |-> 70],
       [trees |-> 200, leafPop |-> 5, bagFrac |-> 60, splitVar |-> 60] >>

rfParamsGrid == SubSeq(rfParamsShipped, 1, NumRfParams)

\* targetSizesGrid.map(t => rfParamsGrid.map(r => {t, r})).flatten()
AllCombinations ==
    Flatten([i \in 1..Len(targetSizesGrid) |->
        [j \in 1..Len(rfParamsGrid) |->
            [targetSizes |-> targetSizesGrid[i], rfParams |-> rfParamsGrid[j]]]])

\* ee.List.sequence(0, allCombinations.size() - 1), as a set of indices
Iterations == 0..(Len(AllCombinations) - 1)

\* allCombinations.get(iteration): lists are 0-based
Combination(iteration) == AllCombinations[iteration + 1]

-----------------------------------------------------------------------------
(* 4. Helper functions                                                     *)

\* ee.Number.parse on the strings of the bounded library
NumberParse(str) ==
    CASE str = "0" -> Ok(0)
      [] str = "1" -> Ok(1)
      [] str = "2" -> Ok(2)
      [] str = "3" -> Ok(3)
      [] str = "250" -> Ok(250)
      [] OTHER -> Err("Number.parse: unable to parse")

\* safeParse of convertToFloat: the empty string is 0
safeParse(val) == IF val = "" THEN Ok(0) ELSE NumberParse(val)

\* convertToFloat on a feature whose strings parse
convertToFloat(feature) ==
    [feature EXCEPT !.NBR = safeParse(feature.NBR).v,
                    !.NBR_chg_ra = safeParse(feature.NBR_chg_ra).v,
                    !.label = safeParse(feature.label).v]

\* randomColumn: the pseudo-random number, in percent, that the platform
\* gives the feature number id under a seed. The generator is a fixed
\* function of (seed, id); prngStream selects which one.
RandomValue(seed, id) ==
    ((seed * (3 + prngStream) + id * (5 + 2 * prngStream) + seed * id) % 4) * 25

randomColumn(collection, name, seed) ==
    [k \in 1..Len(collection) |->
        IF name = "random"
        THEN [collection[k] EXCEPT !.random = RandomValue(seed, collection[k].id)]
        ELSE [collection[k] EXCEPT !.oversample = RandomValue(seed, collection[k].id)]]

\* oversampleClass(features, targetClass, multiplier), lines 221-233
oversampleClass(features, targetClass, multiplier) ==
    IF ~multiplier.ok THEN Err(multiplier.v)
    ELSE
    LET IsClass(f) == f.label = targetClass
        classSamples == SelectSeq(features, IsClass)
        size == Len(classSamples)
        targetSize == RatRound(RatMax0(RatMul(multiplier.v, <<size, 1>>)))
        overSize == targetSize - size
        overSampled ==
            IF overSize > 0
            THEN Limit(SortByOversample(
                           randomColumn(classSamples, "oversample", 0)), overSize)
            ELSE <<>>
    IN  Ok(classSamples \o overSampled)

-----------------------------------------------------------------------------
(* 5. evaluateParams, statement by statement                               *)

\* line 252: ee.Filter.notNull(optimalFeatures)
NotNull(f) == f.NBR # NullValue /\ f.NBR_chg_ra # NullValue

\* a quality filter that keeps the samples whose NBR is 0
QualityNotNegative(f) == f.NBR >= 0

\* line 254: ee.Filter.neq('NBR', 0)
QualityOk(f) == f.NBR # 0

\* lines 251-254
CompleteSamples ==
    LET kept == SelectSeq(sampledPoints, NotNull)
        conv == [k \in 1..Len(kept) |-> convertToFloat(kept[k])]
    IN  SelectSeq(conv, QualityOk)

\* a seed that also depends on the run of the script
SeedFromRun(iteration) == iteration + 100 + run

\* line 257: the seed of the split
Seed(iteration) == iteration + 100

split == 75

InTraining(f) == f.random < split
InTesting(f) == f.random >= split

\* line 257
WithRandom(iteration) == randomColumn(completeSamples, "random", Seed(iteration))

\* lines 262-266: frequencyHistogram of 'label', keyed by the label's string
LabelKey(l) == CASE l = 0 -> "0" [] l = 1 -> "1" [] l = 2 -> "2" [] OTHER -> "3"

ClassSizes(training) ==
    LET present == {LabelKey(training[k].label) : k \in 1..Len(training)}
    IN  [key \in present |->
            Cardinality({k \in 1..Len(training) : LabelKey(training[k].label) = key})]

\* dictionary.getNumber(key): an error when the key is absent
getNumber(dict, key) ==
    IF key \in DOMAIN dict THEN Ok(dict[key])
    ELSE Err("Dictionary.getNumber: Dictionary does not contain key")

\* lines 272-274: target.divide(size)
Multiplier(target, size) ==
    IF ~size.ok THEN Err(size.v) ELSE Ok(Rat(target, size.v))

Multipliers(iteration, dict) ==
    LET targetSizes == Combination(iteration).targetSizes
    IN  [c \in 1..3 |-> Multiplier(targetSizes[c], getNumber(dict, LabelKey(c)))]

-----------------------------------------------------------------------------
(* The mapping script: images at one pixel                                 *)
(*                                                                         *)
(* A pixel of a band is a number, masked (missing), an array, or an error  *)
(* raised when the pixel is computed. An image is an object of the client  *)
(* library; a null object stands for .first() of an empty collection.      *)

NumPx(r) == [k |-> "num", r |-> r, shape |-> <<>>, why |-> ""]
IntPx(n) == NumPx(<<n, 1>>)
MaskedPx == [k |-> "masked", r |-> <<0, 1>>, shape |-> <<>>, why |-> ""]
ErrorPx(why) == [k |-> "error", r |-> <<0, 1>>, shape |-> <<>>, why |-> why]
ArrayPx(r, shape) == [k |-> "array", r |-> r, shape |-> shape, why |-> ""]

Image(px) == [type |-> "Image", px |-> px]
NullImage == [type |-> "Null", px |-> MaskedPx]
ErrorImage(why) == [type |-> "Error", px |-> ErrorPx(why)]
Unbuilt == [type |-> "Unbuilt", px |-> MaskedPx]

START_YEAR == 2000

INDEX_BANDS == <<"NBR", "NDVI", "NDMI", "NDBI", "RVI", "SAVI", "EVI", "DVI">>

\* 1e-5
Epsilon == <<1, 100000>>

\* collection.filter(...).first(): null when no image matches
First(collection) ==
    IF collection = <<>> THEN NullImage ELSE Image(collection[1].px)

\* a per-pixel operation of two images, value being its result on the two
\* numbers: an error when an operand is not an image, masked where either
\* pixel is masked
Binary(a, b, value) ==
    IF a.type # "Image" \/ b.type # "Image"
    THEN ErrorImage("required image parameter is null or failed")
    ELSE IF a.px.k = "error" THEN a
    ELSE IF b.px.k = "error" THEN b
    ELSE IF a.px.k = "masked" \/ b.px.k = "masked" THEN Image(MaskedPx)
    ELSE Image(NumPx(value))

Unary(a, value) ==
    IF a.type # "Image"
    THEN ErrorImage("required image parameter is null or failed")
    ELSE IF a.px.k # "num" THEN a
    ELSE Image(NumPx(value))

\* image.divide: 0 where the divisor is 0
DivideOrZero(x, y) == IF y[1] = 0 THEN <<0, 1>> ELSE RatDiv(x, y)

EqAsNumber(x, y) == IF x = y THEN <<1, 1>> ELSE <<0, 1>>

ImageSubtract(a, b) == Binary(a, b, RatSub(a.px.r, b.px.r))
ImageAdd(a, b) == Binary(a, b, RatAdd(a.px.r, b.px.r))
ImageDivide(a, b) == Binary(a, b, DivideOrZero(a.px.r, b.px.r))
ImageEq(a, b) == Binary(a, b, EqAsNumber(a.px.r, b.px.r))
ImageAbs(a) == Unary(a, RatAbs(a.px.r))

\* ee.Algorithms.If: a condition that is not a boolean counts as true
\* unless it is 0, NaN, null, or an empty string, list or dictionary. An
\* image is none of these, whatever its pixels hold.
Truthy(condition) == condition.type = "Image"

AlgorithmsIf(condition, trueCase, falseCase) ==
    IF condition.type = "Error" THEN condition
    ELSE IF Truthy(condition) THEN trueCase ELSE falseCase

\* a guard that yields the denominator itself
safeDivideKeepsDenominator(num, denom) == denom

\* lines 514-520
safeDivide(num, denom) ==
    AlgorithmsIf(ImageEq(denom, Image(IntPx(0))),
                 Image(IntPx(0)),
                 ImageDivide(num, denom))

\* lines 523-524, before the select and the rename
ChgRaTarget(target, prev1) ==
    ImageDivide(ImageSubtract(target, prev1),
                safeDivide(ImageAbs(prev1),
                           ImageAdd(ImageAbs(prev1), Image(NumPx(Epsilon)))))

\* line 538
AnCha(target, prev1) == ImageAbs(ImageSubtract(target, prev1))

\* the images of a collection whose composite_year is in lo..hi, by year
FilterYears(collection, lo, hi) ==
    LET InRange(img) == img.composite_year >= lo /\ img.composite_year <= hi
    IN  SelectSeq(collection, InRange)

\* reducing an empty collection gives an image without bands; selecting or
\* renaming its bands then fails
NoBandsToSelect == ErrorImage("the reduced image has no bands")

\* the unmasked values a reducer sees at the pixel
ValidImages(collection) ==
    LET Unmasked(img) == img.px.k = "num"
    IN  SelectSeq(collection, Unmasked)

RECURSIVE SumOver(_, _)
\* the sum of F[k] for k in 1..n
SumOver(F, n) == IF n = 0 THEN 0 ELSE F[n] + SumOver(F, n - 1)

RECURSIVE MinOver(_, _)
MinOver(F, n) == IF n = 1 THEN F[1] ELSE Min(F[n], MinOver(F, n - 1))

\* the pixel values are integers in this model
Value(img) == img.px.r[1]

\* imageCollection.mean()
ReduceMean(collection) ==
    IF collection = <<>> THEN NoBandsToSelect ELSE
    LET v == ValidImages(collection)
        n == Len(v)
    IN  IF n = 0 THEN Image(MaskedPx)
        ELSE Image(NumPx(Rat(SumOver([k \in 1..n |-> Value(v[k])], n), n)))

\* imageCollection.min()
ReduceMin(collection) ==
    IF collection = <<>> THEN NoBandsToSelect ELSE
    LET v == ValidImages(collection)
        n == Len(v)
    IN  IF n = 0 THEN Image(MaskedPx)
        ELSE Image(IntPx(MinOver([k \in 1..n |-> Value(v[k])], n)))

\* the square root of a rational: exact for a square, else kept as a surd
SqrtPx(q) ==
    LET a == ISqrt(q[1], 0)
        b == ISqrt(q[2], 0)
    IN  IF a * a = q[1] /\ b * b = q[2] THEN NumPx(<<a, b>>)
        ELSE [k |-> "surd", r |-> q, shape |-> <<>>, why |-> ""]

\* imageCollection.reduce(ee.Reducer.stdDev()): population standard deviation
ReduceStdDev(collection) ==
    IF collection = <<>> THEN NoBandsToSelect ELSE
    LET v == ValidImages(collection)
        n == Len(v)
        sum == SumOver([k \in 1..n |-> Value(v[k])], n)
        sumSq == SumOver([k \in 1..n |-> Value(v[k]) * Value(v[k])], n)
    IN  IF n = 0 THEN Image(MaskedPx)
        ELSE Image(SqrtPx(Rat(n * sumSq - sum * sum, n * n)))

\* ee.Reducer.linearRegression({numX: 1, numY: INDEX_BANDS.length}) on the
\* bands ['year'].concat(INDEX_BANDS): the only independent variable is the
\* year, there is no constant term, so the fit is y = b * year. The output
\* 'coefficients' is an array of shape (numX, numY); it is null (masked)
\* when the number of inputs is at most numX.
ReduceLinearRegression(collection, numX, numY) ==
    IF collection = <<>> THEN NoBandsToSelect ELSE
    LET v == ValidImages(collection)
        n == Len(v)
        sxy == SumOver([k \in 1..n |-> v[k].composite_year * Value(v[k])], n)
        sxx == SumOver([k \in 1..n |-> v[k].composite_year * v[k].composite_year], n)
    IN  IF n <= numX THEN Image(MaskedPx)
        ELSE Image(ArrayPx(Rat(sxy, sxx), <<numX, numY>>))

\* image.arrayProject(axes): keeps the axes listed; a dropped axis must
\* have length at most 1
arrayProject(img, axes) ==
    IF img.type # "Image" \/ img.px.k # "array" THEN img
    ELSE LET shape == img.px.shape
             kept == {axes[k] : k \in 1..Len(axes)}
             dropped == {a \in 0..(Len(shape) - 1) : a \notin kept}
         IN  IF \E a \in dropped : shape[a + 1] > 1
             THEN Image(ErrorPx("arrayProject: dropped axis longer than 1"))
             ELSE Image(ArrayPx(img.px.r, [k \in 1..Len(axes) |-> shape[axes[k] + 1]]))

\* image.arrayFlatten([names]): a 1-D array of Len(names) values becomes
\* one band per name
arrayFlatten(img, names) ==
    IF img.type # "Image" \/ img.px.k # "array" THEN img
    ELSE IF img.px.shape = <<Len(names)>> THEN Image(NumPx(img.px.r))
    ELSE Image(ErrorPx("arrayFlatten: array and labels differ in length"))

\* lines 567-579
calculateTrend(collection) ==
    arrayFlatten(
        arrayProject(ReduceLinearRegression(collection, 1, Len(INDEX_BANDS)), <<0>>),
        INDEX_BANDS)

\* lines 493-498 and 501-506, 508-511
\* a 3-year window that runs up to the target year
History3yThroughTarget(collection, targetYear) ==
    FilterYears(collection, targetYear - 3, targetYear)

History3y(collection, targetYear) == FilterYears(collection, targetYear - 3, targetYear - 1)

\* a 5-year window that runs up to the target year
History5yThroughTarget(collection, targetYear) ==
    FilterYears(collection, targetYear - 5, targetYear)

History5y(collection, targetYear) == FilterYears(collection, targetYear - 5, targetYear - 1)

HistoryAll(collection, targetYear) == FilterYears(collection, START_YEAR, targetYear - 1)

Suffixes == {"cur", "chg_ra", "rol_3y", "rol_5y", "trend", "an_cha", "vola_5y",
             "reco_s", "mean"}

NoBands == [x \in Suffixes |-> Unbuilt]

\* a combination that clips to the region and leaves the forest mask out
CombineClipOnly(b, in, forest) ==
    IF \E x \in Suffixes : b[x].type # "Image"
    THEN [x \in Suffixes |-> ErrorPx("an operand of the image failed")]
    ELSE [x \in Suffixes |-> IF in THEN b[x].px ELSE MaskedPx]

\* lines 546-556: addBands of all features, clip(aoi), updateMask(forestMask).
\* An operand that failed as an object (a null image was passed on) fails
\* the whole image; otherwise each band keeps its pixel inside the region
\* and the forest mask and is masked outside.
Combine(b, in, forest) ==
    IF \E x \in Suffixes : b[x].type # "Image"
    THEN [x \in Suffixes |-> ErrorPx("an operand of the image failed")]
    ELSE [x \in Suffixes |-> IF in /\ forest THEN b[x].px ELSE MaskedPx]

-----------------------------------------------------------------------------
(* The training script as a state machine.  ee.List.map calls its callback *)
(* once, with a symbolic iteration: each statement of evaluateParams       *)
(* builds, for every index of the sequence, the value the statement        *)
(* denotes for that index.                                                 *)

Samples == [id : {0}, label : {"0", "1", "2", "3"},
            NBR : {NullValue, "", "250"}, NBR_chg_ra : {"250"},
            random : {NullValue}, oversample : {NullValue}]

Libraries ==
    {[k \in 1..NumSamples |-> [s[k] EXCEPT !.id = k]] :
        s \in [1..NumSamples -> Samples]}

NoPools == [i \in Iterations |-> NullValue]

\* the stages modelled on their own are not run
IdleParse ==
    /\ ppc = "idle"
    /\ rawSamples = <<>>
    /\ converted = NullValue
    /\ completeBatch = NullValue

IdleTexture ==
    /\ tpc = "idle"
    /\ srBand = "B1"
    /\ srImage = <<>>
    /\ textureFeatures1 = NullValue

IdleAssemble ==
    /\ apc = "idle"
    /\ optimalFeatures = <<>>
    /\ fullFeatureImage = NullValue
    /\ selectedFeatures = NullValue
    /\ pixelsComputed = FALSE
    /\ reported = NullValue

IdleSmooth ==
    /\ spc = "idle"
    /\ forestMask = <<>>
    /\ prediction = <<>>
    /\ modeTie = "lowest"
    /\ classified = NullValue
    /\ smoothed = NullValue

\* the mapping script is not run
IdleMap ==
    /\ mpc = "idle"
    /\ TARGET_YEAR = START_YEAR
    /\ band = INDEX_BANDS[1]
    /\ tsCollection = <<>>
    /\ inAoi = FALSE
    /\ isForest = FALSE
    /\ imgTarget = Unbuilt
    /\ imgPrev1 = Unbuilt
    /\ histCollection_3y = <<>>
    /\ histCollection_5y = <<>>
    /\ histCollection = <<>>
    /\ bands = NoBands
    /\ result = NullValue

\* no pixel has its indices calculated on its own
IdleIndex ==
    /\ ipc = "idle"
    /\ composite = <<>>
    /\ zeroSum = "zero"
    /\ withIndices = NullValue

\* no held-out pool is scored on its own
IdleScore ==
    /\ scpc = "idle"
    /\ testFeatures = <<>>
    /\ testClassification = <<>>
    /\ confusionMatrix = NullValue
    /\ scores = NullValue

\* the training script is not run
IdleTrain ==
    /\ sampledPoints = <<>>
    /\ prngStream = 0
    /\ pc = "idle"
    /\ run = 1
    /\ allCombinations = NullValue
    /\ completeSamples = NullValue
    /\ seedUsed = NoPools
    /\ trainingOriginal = NoPools
    /\ testingSet = NoPools
    /\ classSizesDict = NoPools
    /\ multipliers = NoPools
    /\ oversampledClass1 = NoPools
    /\ oversampledClass2 = NoPools
    /\ results = NullValue
    /\ exported = NullValue
    /\ thrown = NullValue
    /\ steps = <<>>
    /\ prevSplit = NullValue

InitTrain ==
    /\ IdleMap
    /\ IdleParse /\ IdleTexture /\ IdleScore /\ IdleIndex /\ IdleAssemble /\ IdleSmooth
    /\ sampledPoints \in Libraries
    /\ prngStream \in 0..(NumPrngStreams - 1)
    /\ pc = "start"
    /\ run = 1
    /\ allCombinations = NullValue
    /\ completeSamples = NullValue
    /\ seedUsed = NoPools
    /\ trainingOriginal = NoPools
    /\ testingSet = NoPools
    /\ classSizesDict = NoPools
    /\ multipliers = NoPools
    /\ oversampledClass1 = NoPools
    /\ oversampledClass2 = NoPools
    /\ results = NullValue
    /\ exported = NullValue
    /\ thrown = NullValue
    /\ steps = <<>>
    /\ prevSplit = NullValue

\* lines 144-177: the grid and its Cartesian product
DefineGrid ==
    /\ pc = "start"
    /\ allCombinations' = AllCombinations
    /\ pc' = "filter"
    /\ UNCHANGED <<sampledPoints, prngStream, run, completeSamples, seedUsed,
                   trainingOriginal, testingSet, classSizesDict, multipliers,
                   oversampledClass1, oversampledClass2, results, exported,
                   thrown, steps, prevSplit, mapVars, stageVars>>

\* lines 336-341 enter the callback; lines 251-254
FilterSamples ==
    /\ pc = "filter"
    /\ completeSamples' = CompleteSamples
    /\ steps' = Append(steps, "filter")
    /\ pc' = "split"
    /\ UNCHANGED <<sampledPoints, prngStream, run, allCombinations, seedUsed,
                   trainingOriginal, testingSet, classSizesDict, multipliers,
                   oversampledClass1, oversampledClass2, results, exported,
                   thrown, prevSplit, mapVars, stageVars>>

\* lines 256-259
SplitSamples ==
    /\ pc = "split"
    /\ seedUsed' = [i \in Iterations |-> Seed(i)]
    /\ trainingOriginal' =
           [i \in Iterations |-> SelectSeq(WithRandom(i), InTraining)]
    /\ testingSet' =
           [i \in Iterations |-> SelectSeq(WithRandom(i), InTesting)]
    /\ steps' = Append(steps, "split")
    /\ pc' = "sizes"
    /\ UNCHANGED <<sampledPoints, prngStream, run, allCombinations,
                   completeSamples, classSizesDict, multipliers,
                   oversampledClass1, oversampledClass2, results, exported,
                   thrown, prevSplit, mapVars, stageVars>>

\* lines 262-274
CountClasses ==
    /\ pc = "sizes"
    /\ classSizesDict' = [i \in Iterations |-> ClassSizes(trainingOriginal[i])]
    /\ multipliers' =
           [i \in Iterations |-> Multipliers(i, ClassSizes(trainingOriginal[i]))]
    /\ steps' = Append(steps, "balance")
    /\ pc' = "over1"
    /\ UNCHANGED <<sampledPoints, prngStream, run, allCombinations,
                   completeSamples, seedUsed, trainingOriginal, testingSet,
                   oversampledClass1, oversampledClass2, results, exported,
                   thrown, prevSplit, mapVars, stageVars>>

\* line 276
OversampleClass1 ==
    /\ pc = "over1"
    /\ oversampledClass1' =
           [i \in Iterations |->
               oversampleClass(trainingOriginal[i], 1, multipliers[i][1])]
    /\ pc' = "over2"
    /\ UNCHANGED <<sampledPoints, prngStream, run, allCombinations,
                   completeSamples, seedUsed, trainingOriginal, testingSet,
                   classSizesDict, multipliers, oversampledClass2, results,
                   exported, thrown, steps, prevSplit, mapVars, stageVars>>

\* line 277
OversampleClass2 ==
    /\ pc = "over2"
    /\ oversampledClass2' =
           [i \in Iterations |->
               oversampleClass(trainingOriginal[i], 2, multipliers[i][2])]
    /\ pc' = "over3"
    /\ UNCHANGED <<sampledPoints, prngStream, run, allCombinations,
                   completeSamples, seedUsed, trainingOriginal, testingSet,
                   classSizesDict, multipliers, oversampledClass1, results,
                   exported, thrown, steps, prevSplit, mapVars, stageVars>>

\* line 278 calls oversampledClass, a name the script never defines (the
\* function is oversampleClass): JavaScript throws a ReferenceError inside
\* the callback of sequence.map. Nothing catches it, so the script stops
\* here: lines 280-328 never run, results (line 337) is never assigned and
\* Export.table.toDrive (line 348) is never called.
OversampleClass3 ==
    /\ pc = "over3"
    /\ thrown' = [name |-> "ReferenceError",
                  message |-> "oversampledClass is not defined"]
    /\ pc' = "aborted"
    /\ UNCHANGED <<sampledPoints, prngStream, run, allCombinations,
                   completeSamples, seedUsed, trainingOriginal, testingSet,
                   classSizesDict, multipliers, oversampledClass1,
                   oversampledClass2, results, exported, steps, prevSplit,
                   mapVars, stageVars>>

\* the user runs the script again on the same library (Run in the editor)
RunAgain ==
    /\ pc = "aborted"
    /\ run < MaxRuns
    /\ run' = run + 1
    /\ prevSplit' = [seed |-> seedUsed, training |-> trainingOriginal,
                     testing |-> testingSet]
    /\ pc' = "start"
    /\ allCombinations' = NullValue
    /\ completeSamples' = NullValue
    /\ seedUsed' = NoPools
    /\ trainingOriginal' = NoPools
    /\ testingSet' = NoPools
    /\ classSizesDict' = NoPools
    /\ multipliers' = NoPools
    /\ oversampledClass1' = NoPools
    /\ oversampledClass2' = NoPools
    /\ thrown' = NullValue
    /\ steps' = <<>>
    /\ UNCHANGED <<sampledPoints, prngStream, results, exported, mapVars,
                   stageVars>>

NextTrain ==
    \/ DefineGrid
    \/ FilterSamples
    \/ SplitSamples
    \/ CountClasses
    \/ OversampleClass1
    \/ OversampleClass2
    \/ OversampleClass3
    \/ RunAgain

SpecTrain == InitTrain /\ [][NextTrain]_vars

-----------------------------------------------------------------------------
(* calculateAnnualFeatures as a state machine, for one pixel of one band   *)

PixelChoices == {MaskedPx, IntPx(0), IntPx(2)}

Offsets == {0, 3}
Slopes == {-1, 2}

YearsOfSeries(targetYear) == targetYear - START_YEAR + 1

\* value = a + D * year in every year of the series
LinearSeries(a, D, targetYear) ==
    [k \in 1..YearsOfSeries(targetYear) |->
        [composite_year |-> START_YEAR + k - 1,
         px |-> IntPx(a + D * (START_YEAR + k - 1))]]

\* the yearly composites START_YEAR..targetYear (line 619) at the pixel
SeriesOf(targetYear) ==
    {[k \in 1..YearsOfSeries(targetYear) |->
         [composite_year |-> START_YEAR + k - 1, px |-> f[k]]] :
        f \in [1..YearsOfSeries(targetYear) -> PixelChoices]}
    \cup {LinearSeries(a, D, targetYear) : a \in Offsets, D \in Slopes}

InitMap ==
    /\ IdleTrain
    /\ IdleParse /\ IdleTexture /\ IdleScore /\ IdleIndex /\ IdleAssemble /\ IdleSmooth
    /\ mpc = "select"
    /\ TARGET_YEAR \in START_YEAR..MaxTargetYear
    /\ band \in {INDEX_BANDS[k] : k \in 1..Len(INDEX_BANDS)}
    /\ tsCollection \in SeriesOf(TARGET_YEAR)
    /\ inAoi \in BOOLEAN
    /\ isForest \in BOOLEAN
    /\ imgTarget = Unbuilt
    /\ imgPrev1 = Unbuilt
    /\ histCollection_3y = <<>>
    /\ histCollection_5y = <<>>
    /\ histCollection = <<>>
    /\ bands = NoBands
    /\ result = NullValue

\* lines 488-489
SelectImages ==
    /\ mpc = "select"
    /\ imgTarget' = First(FilterYears(tsCollection, TARGET_YEAR, TARGET_YEAR))
    /\ imgPrev1' = First(FilterYears(tsCollection, TARGET_YEAR - 1, TARGET_YEAR - 1))
    /\ mpc' = "history"
    /\ UNCHANGED <<TARGET_YEAR, band, tsCollection, inAoi, isForest,
                   histCollection_3y, histCollection_5y, histCollection,
                   bands, result, trainVars, stageVars>>

\* lines 493-511
BuildHistory ==
    /\ mpc = "history"
    /\ histCollection_3y' = History3y(tsCollection, TARGET_YEAR)
    /\ histCollection_5y' = History5y(tsCollection, TARGET_YEAR)
    /\ histCollection' = HistoryAll(tsCollection, TARGET_YEAR)
    /\ mpc' = "change"
    /\ UNCHANGED <<TARGET_YEAR, band, tsCollection, inAoi, isForest, imgTarget,
                   imgPrev1, bands, result, trainVars, stageVars>>

\* lines 523-526
RelativeChange ==
    /\ mpc = "change"
    /\ bands' = [bands EXCEPT !["cur"] = imgTarget,
                              !["chg_ra"] = ChgRaTarget(imgTarget, imgPrev1)]
    /\ mpc' = "rolling"
    /\ UNCHANGED <<TARGET_YEAR, band, tsCollection, inAoi, isForest, imgTarget,
                   imgPrev1, histCollection_3y, histCollection_5y,
                   histCollection, result, trainVars, stageVars>>

\* lines 529-531
RollingStatistics ==
    /\ mpc = "rolling"
    /\ bands' = [bands EXCEPT !["rol_3y"] = ReduceMean(histCollection_3y),
                              !["rol_5y"] = ReduceMin(histCollection_5y),
                              !["vola_5y"] = ReduceStdDev(histCollection_5y)]
    /\ mpc' = "trends"
    /\ UNCHANGED <<TARGET_YEAR, band, tsCollection, inAoi, isForest, imgTarget,
                   imgPrev1, histCollection_3y, histCollection_5y,
                   histCollection, result, trainVars, stageVars>>

\* lines 534-535
Trends ==
    /\ mpc = "trends"
    /\ bands' = [bands EXCEPT !["trend"] = calculateTrend(histCollection),
                              !["reco_s"] = calculateTrend(histCollection_3y)]
    /\ mpc' = "metrics"
    /\ UNCHANGED <<TARGET_YEAR, band, tsCollection, inAoi, isForest, imgTarget,
                   imgPrev1, histCollection_3y, histCollection_5y,
                   histCollection, result, trainVars, stageVars>>

\* lines 538-543
ChangeMetrics ==
    /\ mpc = "metrics"
    /\ bands' = [bands EXCEPT !["an_cha"] = AnCha(imgTarget, imgPrev1),
                              !["mean"] = ReduceMean(histCollection)]
    /\ mpc' = "combine"
    /\ UNCHANGED <<TARGET_YEAR, band, tsCollection, inAoi, isForest, imgTarget,
                   imgPrev1, histCollection_3y, histCollection_5y,
                   histCollection, result, trainVars, stageVars>>

\* lines 546-558
CombineFeatures ==
    /\ mpc = "combine"
    /\ result' = Combine(bands, inAoi, isForest)
    /\ mpc' = "features"
    /\ UNCHANGED <<TARGET_YEAR, band, tsCollection, inAoi, isForest, imgTarget,
                   imgPrev1, histCollection_3y, histCollection_5y,
                   histCollection, bands, trainVars, stageVars>>

NextMap ==
    \/ SelectImages
    \/ BuildHistory
    \/ RelativeChange
    \/ RollingStatistics
    \/ Trends
    \/ ChangeMetrics
    \/ CombineFeatures

SpecMap == InitMap /\ [][NextMap]_vars

-----------------------------------------------------------------------------
(* Feature assembly, lines 628-647: the band names of the images           *)

MaxRequest == 2    \* length of an edited feature list

\* an image as the list of its band names, or the error it fails with
Bands(names) == [type |-> "Image", names |-> names, why |-> ""]
Failed(why) == [type |-> "Error", names |-> <<>>, why |-> why]

NameSet(names) == {names[k] : k \in 1..Len(names)}

\* lines 66-73 and 578: INDEX_BANDS.map(function(b) { return b + suffix; })
Suffixed(names, suffix) == [k \in 1..Len(names) |-> names[k] \o suffix]

CHG_RA_NAMES == Suffixed(INDEX_BANDS, "_chg_ra")
ROL_3Y_NAMES == Suffixed(INDEX_BANDS, "_rol_3y")
ROL_5Y_NAMES == Suffixed(INDEX_BANDS, "_rol_5y")
VOLA_5Y_NAMES == Suffixed(INDEX_BANDS, "_vola_5y")
AN_CHA_NAMES == Suffixed(INDEX_BANDS, "_an_cha")
MEAN_NAMES == Suffixed(INDEX_BANDS, "_mean")
RECO_S_NAMES == Suffixed(INDEX_BANDS, "_reco_s")

\* the reflectance bands of the yearly composites
SR_BANDS == <<"B1", "B2", "B3", "B4", "B5", "B7">>

RECURSIVE FreshName(_, _, _)
\* the name addBands gives a band whose name is taken: foo_1 unless foo_1
\* exists, then foo_2, and so on
FreshName(taken, name, n) ==
    LET candidate == name \o "_" \o ToString(n)
    IN  IF candidate \notin taken THEN candidate
        ELSE FreshName(taken, name, n + 1)

RECURSIVE AddNames(_, _)
AddNames(dst, src) ==
    IF src = <<>> THEN dst
    ELSE LET name == IF Head(src) \in NameSet(dst)
                     THEN FreshName(NameSet(dst), Head(src), 1)
                     ELSE Head(src)
         IN  AddNames(Append(dst, name), Tail(src))

\* image.addBands(srcImg): overwrite is false; an operand that failed
\* fails the result
addBands(dst, src) ==
    IF dst.type # "Image" THEN dst
    ELSE IF src.type # "Image" THEN src
    ELSE Bands(AddNames(dst.names, src.names))

\* the yearly composites START_YEAR..targetYear, line 619
CompositeYears(targetYear) ==
    [k \in 1..(targetYear - START_YEAR + 1) |->
        [composite_year |-> START_YEAR + k - 1, px |-> MaskedPx]]

\* lines 546-554: the bands of the image calculateAnnualFeatures returns.
\* imgPrev1 is null when the series has no year targetYear - 1; subtract
\* (lines 523, 538) then fails and so does the image.
AnnualFeatureBands(targetYear) ==
    LET series == CompositeYears(targetYear)
        prev1 == First(FilterYears(series, targetYear - 1, targetYear - 1))
    IN  IF prev1.type # "Image"
        THEN Failed("Image.subtract: parameter 'image2' is required")
        ELSE Bands(INDEX_BANDS \o CHG_RA_NAMES \o ROL_3Y_NAMES \o ROL_5Y_NAMES
                   \o Suffixed(INDEX_BANDS, "_trend") \o AN_CHA_NAMES
                   \o VOLA_5Y_NAMES \o RECO_S_NAMES \o MEAN_NAMES)

\* lines 377-383: the input bands, then <band>_mean and <band>_stdDev
FirstOrderTextureBands ==
    addBands(Bands(SR_BANDS),
             Bands(Flatten([k \in 1..Len(SR_BANDS) |->
                 <<SR_BANDS[k] \o "_mean", SR_BANDS[k] \o "_stdDev">>])))

\* lines 418-424: the input bands, then <band>_con, _ent and _cor
GLCMTextureBands ==
    addBands(Bands(SR_BANDS),
             Bands(Flatten([k \in 1..Len(SR_BANDS) |->
                 <<SR_BANDS[k] \o "_con", SR_BANDS[k] \o "_ent",
                   SR_BANDS[k] \o "_cor">>])))

\* line 474
ClimateBands == Bands(<<"a_precip", "p_precip", "temp_an", "su_temp">>)

\* lines 601-605
TerrainBands == Bands(<<"dem", "slope", "aspect">>)

\* lines 639-643
FullFeatureImage(targetYear) ==
    addBands(addBands(addBands(addBands(AnnualFeatureBands(targetYear),
                                        FirstOrderTextureBands),
                               GLCMTextureBands),
                      ClimateBands),
             TerrainBands)

\* a selection that keeps the order the bands have in the image
selectInImageOrder(image, selectors) ==
    LET Wanted(name) == name \in NameSet(selectors)
    IN  IF image.type # "Image" THEN image
        ELSE IF \E k \in 1..Len(selectors) : selectors[k] \notin NameSet(image.names)
        THEN Failed("Image.select: Pattern did not match any bands")
        ELSE Bands(SelectSeq(image.names, Wanted))

\* image.select(selectors): the bands named, in the order of the selectors;
\* an error when a selector matches no band
select(image, selectors) ==
    IF image.type # "Image" THEN image
    ELSE IF \E k \in 1..Len(selectors) : selectors[k] \notin NameSet(image.names)
    THEN Failed("Image.select: Pattern did not match any bands")
    ELSE Bands(selectors)

\* lines 221-265: the feature lists as shipped, by region
featsList ==
    <<
       <<"a_precip", "p_precip", "su_temp", "temp_an", "NDBI", "NDMI",
         "NDVI", "NBR", "EVI", "RVI", "DVI", "B5_mean", "SAVI", "B3_stdDev",
         "B3_mean", "B4_mean", "B1_stdDev", "B7_stdDev", "B1_mean", "B7_con",
         "B7_cor", "B7_ent", "B7_mean", "NDBI_r_m_3", "NDBI_r_sl",
         "NDMI_r_m_5", "NDVI_mean", "NDVI_c_ac", "NDVI_r_m_3", "NDVI_r_m_5",
         "NDVI_v_5", "NDVI_r_sl", "NBR_c_ac", "NBR_r_m_5", "EVI_mean",
         "EVI_trend", "EVI_c_ac", "EVI_r_m_3", "EVI_r_sl", "RVI_c_ac",
         "RVI_r_m_3", "RVI_r_m_5", "RVI_r_sl", "DVI_mean", "DVI_c_ac",
         "DVI_r_m_3", "DVI_r_m_5", "SAVI_mean", "SAVI_trend", "SAVI_c_ac",
         "SAVI_r_m_3", "SAVI_r_m_5">>,
       <<"p_precip", "su_temp", "temp_an", "NDBI", "NDMI", "NDVI", "NBR",
         "EVI", "RVI", "DVI", "B5_mean", "SAVI", "B3_stdDev", "B3_mean",
         "B4_mean", "B1_mean", "B7_con", "B7_cor", "B7_ent", "B7_mean",
         "NDBI_r_m_3", "NDBI_r_sl", "NDVI_c_ac", "NDVI_r_m_3", "NDVI_v_5",
         "NDVI_r_sl", "NBR_c_ac", "NBR_r_m_5", "EVI_v_5", "RVI_v_5",
         "SAVI_trend">>,
       <<"su_temp", "NDBI", "NDMI", "NDVI", "NBR", "EVI", "RVI", "DVI",
         "B5_mean", "SAVI", "B3_stdDev", "B3_mean", "B1_stdDev", "B7_stdDev",
         "B1_mean", "B7_con", "B7_cor", "B7_ent", "B7_mean", "NDBI_r_m_3",
         "NDMI_r_m_5", "NDVI_mean", "NDVI_r_m_3", "NDVI_r_m_5", "EVI_r_m_3",
         "EVI_r_m_5", "EVI_r_sl", "RVI_r_m_3", "RVI_r_m_5", "SAVI_mean",
         "SAVI_r_m_5", "SAVI_v_5">>,
       <<"a_precip", "temp_an", "NDBI", "NDMI", "NDVI", "NBR", "EVI", "RVI",
         "DVI", "B5_mean", "SAVI", "B3_stdDev", "B3_mean", "B4_mean",
         "B1_stdDev", "B7_stdDev", "B7_con", "B7_cor", "B7_mean",
         "NDBI_r_m_3", "NDVI_mean", "NDVI_r_m_5", "EVI_mean", "EVI_r_m_3",
         "EVI_r_m_5", "RVI_r_m_3", "RVI_v_5", "DVI_v_5", "SAVI_mean">>,
       <<"NDBI", "NDMI", "NDVI", "NBR", "RVI", "SAVI", "B3_stdDev",
         "B3_mean", "B7_mean", "NDBI_mean", "NDBI_r_m_3", "NDMI_mean",
         "NDMI_r_m_3", "NDMI_r_m_5", "NDVI_mean", "NDVI_r_m_3", "NBR_mean",
         "NBR_r_m_5", "SAVI_mean", "SAVI_r_m_3">>,
       <<"p_precip", "su_temp", "NDBI", "NDMI", "NDVI", "NBR", "EVI", "RVI",
         "DVI", "B5_mean", "SAVI", "B3_stdDev", "B3_mean", "B4_mean",
         "B1_stdDev", "B1_mean", "B7_con", "B7_ent", "B7_mean", "NDBI_r_m_3",
         "NDBI_r_sl", "NDMI_r_m_5", "NDVI_mean", "NDVI_r_m_3", "NDVI_r_m_5",
         "NBR_r_m_5", "EVI_r_m_3", "EVI_r_m_5", "EVI_v_5", "RVI_r_m_5",
         "RVI_v_5", "DVI_r_m_5", "DVI_r_sl", "SAVI_mean", "SAVI_trend",
         "SAVI_r_m_5">>,
       <<"a_precip", "p_precip", "su_temp", "temp_an", "NDBI", "NDMI",
         "NDVI", "NBR", "EVI", "RVI", "DVI", "B5_mean", "SAVI", "B3_mean",
         "B4_mean", "B1_stdDev", "B7_stdDev", "B1_mean", "B7_con", "B7_cor",
         "B7_ent", "B7_mean", "NDBI_r_m_3", "NDMI_r_m_5", "NDVI_mean",
         "NDVI_c_ac", "NDVI_r_m_3", "NDVI_r_m_5", "NDVI_v_5", "NDVI_r_sl",
         "NBR_c_ac", "NBR_r_m_5", "EVI_mean", "EVI_trend", "EVI_r_m_3",
         "EVI_r_m_5", "EVI_v_5", "EVI_r_sl", "RVI_c_ac", "RVI_r_m_3",
         "RVI_r_m_5", "RVI_v_5", "RVI_r_sl", "DVI_c_ac", "DVI_r_m_3",
         "DVI_v_5", "SAVI_mean", "SAVI_trend", "SAVI_c_ac", "SAVI_r_m_3",
         "SAVI_r_m_5", "SAVI_v_5", "SAVI_r_sl">>,
       <<"p_precip", "su_temp", "temp_an", "NDBI", "NDMI", "NDVI", "NBR",
         "EVI", "RVI", "DVI", "B5_mean", "SAVI", "B3_stdDev", "B3_mean",
         "B4_mean", "B7_stdDev", "B1_mean", "B7_mean", "NDBI_r_m_3",
         "NDBI_r_sl", "NDVI_mean", "NDVI_c_ac", "NDVI_r_m_5", "NDVI_v_5",
         "NBR_r_m_5", "EVI_r_m_3", "EVI_r_m_5", "EVI_v_5", "RVI_r_m_3",
         "RVI_r_m_5", "RVI_v_5", "DVI_mean", "DVI_c_ac", "DVI_r_m_3",
         "DVI_r_m_5", "DVI_v_5", "DVI_r_sl", "SAVI_mean", "SAVI_r_m_3",
         "SAVI_r_m_5", "SAVI_v_5">>,
       <<"a_precip", "p_precip", "NDBI", "NDMI", "NDVI", "NBR", "EVI", "RVI",
         "DVI", "B5_mean", "SAVI", "B3_stdDev", "B3_mean", "B1_stdDev",
         "B7_stdDev", "B1_mean", "B7_con", "B7_ent", "B7_mean", "NDBI_r_m_3",
         "NDBI_r_sl", "NDMI_r_m_5", "NDVI_mean", "NDVI_r_m_5", "NDVI_v_5",
         "NDVI_r_sl", "NBR_r_m_5", "EVI_mean", "EVI_r_m_5", "RVI_r_m_3",
         "RVI_r_m_5", "RVI_r_sl", "SAVI_mean", "SAVI_v_5", "SAVI_r_sl">>,
       <<"NDBI", "NDMI", "NDVI", "NBR", "EVI", "RVI", "DVI", "SAVI",
         "B3_stdDev", "B3_mean", "B1_stdDev", "B7_stdDev", "B1_mean",
         "B7_mean", "NDVI_mean", "NDVI_r_m_3", "NDVI_r_m_5", "NDVI_v_5",
         "RVI_r_m_5", "SAVI_mean", "SAVI_r_m_3", "SAVI_v_5">>,
       <<"p_precip", "su_temp", "NDBI", "NDMI", "NDVI", "NBR", "EVI", "RVI",
         "B5_mean", "SAVI", "B3_stdDev", "B3_mean", "B1_stdDev", "B7_stdDev",
         "B1_mean", "B7_con", "B7_cor", "B7_ent", "B7_mean", "NDBI_r_m_3",
         "NDBI_r_sl", "NDMI_r_m_5", "NDVI_mean", "NDVI_r_m_5", "NDVI_v_5",
         "NBR_r_m_5", "EVI_r_m_5", "EVI_v_5", "RVI_r_m_5", "RVI_v_5",
         "SAVI_mean", "SAVI_r_m_5", "SAVI_v_5">>,
       <<"a_precip", "p_precip", "su_temp", "temp_an", "NDBI", "NDMI",
         "NDVI", "NBR", "EVI", "RVI", "DVI", "B5_mean", "SAVI", "B3_stdDev",
         "B3_mean", "B4_mean", "B1_stdDev", "B1_mean", "B7_con", "B7_cor",
         "B7_ent", "B7_mean", "NDBI_r_m_3", "NDBI_r_sl", "NDMI_r_m_5",
         "NDVI_mean", "NDVI_r_m_3", "NDVI_r_m_5", "NDVI_v_5", "NBR_r_m_5",
         "EVI_mean", "EVI_r_m_5", "EVI_v_5", "RVI_r_m_3", "RVI_r_m_5",
         "RVI_v_5", "DVI_r_m_5", "DVI_v_5", "SAVI_mean", "SAVI_r_m_5",
         "SAVI_v_5">>,
       <<"a_precip", "p_precip", "su_temp", "temp_an", "NDBI", "NDMI",
         "NDVI", "NBR", "EVI", "RVI", "DVI", "B5_mean", "SAVI", "B3_stdDev",
         "B3_mean", "B1_stdDev", "B7_stdDev", "B1_mean", "B7_con", "B7_ent",
         "B7_mean", "NDBI_r_m_3", "NDBI_r_sl", "NDMI_r_m_5", "NDVI_r_m_5",
         "NBR_r_m_5", "EVI_r_m_3", "EVI_v_5", "DVI_v_5", "SAVI_trend",
         "SAVI_r_m_3", "SAVI_r_m_5">>,
       <<"a_precip", "p_precip", "su_temp", "NDBI", "NDMI", "NDVI", "NBR",
         "EVI", "RVI", "DVI", "B5_mean", "SAVI", "B3_stdDev", "B3_mean",
         "B4_mean", "B1_stdDev", "B7_stdDev", "B1_mean", "B7_con", "B7_ent",
         "B7_mean", "NDBI_r_m_3", "NDMI_r_m_5", "NDVI_mean", "NDVI_r_m_5",
         "NDVI_v_5", "NBR_r_m_5", "RVI_r_m_3", "RVI_r_m_5", "DVI_mean",
         "DVI_r_m_3", "SAVI_mean", "SAVI_r_m_3", "SAVI_r_m_5">>,
       <<"p_precip", "temp_an", "NDBI", "NDMI", "NDVI", "NBR", "EVI", "RVI",
         "DVI", "B5_mean", "SAVI", "B3_stdDev", "B3_mean", "B4_mean",
         "B1_stdDev", "B7_stdDev", "B1_mean", "B7_con", "B7_mean",
         "NDMI_r_m_5", "NDVI_mean", "NDVI_r_m_3", "NDVI_r_m_5", "NDVI_v_5",
         "NDVI_r_sl", "NBR_r_m_5", "EVI_mean", "EVI_r_m_5", "EVI_v_5",
         "EVI_r_sl", "RVI_r_m_3", "RVI_r_m_5", "RVI_v_5", "DVI_r_m_5",
         "SAVI_mean", "SAVI_trend", "SAVI_r_m_3", "SAVI_r_m_5", "SAVI_v_5">>,
       <<"a_precip", "su_temp", "temp_an", "NDBI", "NDMI", "NDVI", "NBR",
         "EVI", "RVI", "DVI", "B5_mean", "SAVI", "B3_stdDev", "B3_mean",
         "B1_stdDev", "B1_mean", "B7_con", "B7_mean", "NDBI_r_m_3",
         "NDBI_r_sl", "NDVI_mean", "NDVI_r_m_3", "NDVI_r_m_5", "NDVI_v_5",
         "NDVI_r_sl", "NBR_r_m_5", "EVI_r_m_5", "RVI_r_m_5", "RVI_v_5",
         "DVI_mean", "DVI_r_m_3", "DVI_r_m_5", "DVI_v_5", "SAVI_mean",
         "SAVI_r_m_3", "SAVI_r_m_5", "SAVI_v_5", "SAVI_r_sl">>,
       <<"su_temp", "NDBI", "NDMI", "NDVI", "NBR", "EVI", "RVI", "DVI",
         "B5_mean", "SAVI", "B3_stdDev", "B3_mean", "B1_stdDev", "B7_stdDev",
         "B1_mean", "B7_con", "B7_ent", "B7_mean", "NDMI_r_m_5", "NDVI_mean",
         "NDVI_r_m_3", "NDVI_r_m_5", "NDVI_v_5", "NDVI_r_sl", "NBR_r_m_5",
         "EVI_v_5", "RVI_r_m_3", "RVI_r_m_5", "RVI_v_5", "DVI_r_m_3",
         "SAVI_mean", "SAVI_r_m_5", "SAVI_v_5">>,
       <<"a_precip", "su_temp", "temp_an", "NDBI", "NDMI", "NDVI", "NBR",
         "EVI", "RVI", "DVI", "B5_mean", "SAVI", "B3_stdDev", "B3_mean",
         "B4_mean", "B7_stdDev", "B1_mean", "B7_con", "B7_mean",
         "NDBI_r_m_3", "NDVI_mean", "NDVI_r_m_3", "NDVI_r_m_5", "NBR_r_m_5",
         "RVI_r_m_5", "DVI_mean", "DVI_c_ac", "DVI_r_m_3", "DVI_r_m_5",
         "SAVI_mean", "SAVI_trend", "SAVI_r_m_3", "SAVI_r_m_5">>,
       <<"p_precip", "su_temp", "NDBI", "NDMI", "NDVI", "NBR", "EVI", "RVI",
         "DVI", "B5_mean", "SAVI", "B3_stdDev", "B3_mean", "B1_stdDev",
         "B7_stdDev", "B1_mean", "B7_con", "B7_mean", "NDBI_r_sl",
         "NDVI_mean", "NDVI_r_m_3", "NDVI_r_m_5", "NDVI_v_5", "NDVI_r_sl",
         "NBR_r_m_5", "EVI_r_m_3", "EVI_r_m_5", "EVI_v_5", "RVI_r_m_3",
         "RVI_r_m_5", "DVI_mean", "SAVI_mean", "SAVI_r_m_3", "SAVI_r_m_5">>,
       <<"p_precip", "su_temp", "NDBI", "NDMI", "NDVI", "NBR", "EVI", "RVI",
         "DVI", "B5_mean", "SAVI", "B3_stdDev", "B3_mean", "B1_stdDev",
         "B7_stdDev", "B7_con", "B7_mean", "NDBI_r_sl", "NDVI_mean",
         "NDVI_r_m_3", "NDVI_r_m_5", "NDVI_v_5", "NBR_r_m_5", "EVI_r_m_3",
         "EVI_r_m_5", "EVI_r_sl", "RVI_r_m_3", "RVI_r_m_5", "DVI_v_5",
         "SAVI_mean", "SAVI_r_m_5", "SAVI_v_5">>,
       <<"a_precip", "su_temp", "temp_an", "NDBI", "NDMI", "NDVI", "NBR",
         "EVI", "RVI", "DVI", "B5_mean", "SAVI", "B3_stdDev", "B3_mean",
         "B4_mean", "B1_stdDev", "B7_stdDev", "B1_mean", "B7_con", "B7_ent",
         "B7_mean", "NDVI_mean", "NDVI_r_m_3", "NDVI_r_m_5", "NDVI_v_5",
         "NBR_r_m_5", "EVI_r_m_3", "EVI_r_m_5", "EVI_v_5", "RVI_r_m_3",
         "RVI_r_m_5", "DVI_v_5", "DVI_r_sl", "SAVI_mean", "SAVI_r_m_3",
         "SAVI_r_m_5", "SAVI_v_5">>,
       <<"a_precip", "p_precip", "su_temp", "NDBI", "NDMI", "NDVI", "NBR",
         "EVI", "RVI", "DVI", "B5_mean", "SAVI", "B3_mean", "B4_mean",
         "B7_stdDev", "B1_mean", "B7_con", "B7_ent", "B7_mean", "NDBI_r_m_3",
         "NDBI_r_sl", "NDMI_r_m_5", "NDVI_mean", "NDVI_r_m_3", "NDVI_r_m_5",
         "NDVI_v_5", "NBR_r_m_5", "EVI_mean", "EVI_trend", "EVI_r_m_3",
         "EVI_r_m_5", "EVI_r_sl", "RVI_r_m_3", "RVI_r_m_5", "DVI_mean",
         "DVI_r_m_3", "DVI_r_m_5", "SAVI_mean", "SAVI_r_m_3", "SAVI_r_m_5">>,
       <<"a_precip", "su_temp", "NDBI", "NDMI", "NDVI", "NBR", "EVI", "RVI",
         "DVI", "B5_mean", "SAVI", "B3_stdDev", "B3_mean", "B7_stdDev",
         "B1_mean", "B7_con", "B7_cor", "B7_ent", "B7_mean", "NDBI_r_m_3",
         "NDVI_mean", "NDVI_r_m_3", "NDVI_r_m_5", "NDVI_v_5", "NDVI_r_sl",
         "NBR_c_ac", "NBR_r_m_5", "EVI_mean", "EVI_c_ac", "RVI_v_5",
         "DVI_mean", "SAVI_mean", "SAVI_trend", "SAVI_r_m_3", "SAVI_r_m_5">>,
       <<"a_precip", "p_precip", "su_temp", "NDBI", "NDMI", "NDVI", "NBR",
         "EVI", "RVI", "DVI", "B5_mean", "SAVI", "B3_stdDev", "B3_mean",
         "B1_stdDev", "B7_stdDev", "B1_mean", "B7_con", "B7_mean",
         "NDBI_r_m_3", "NDMI_r_m_5", "NDVI_mean", "NDVI_r_m_3", "NDVI_r_m_5",
         "NDVI_v_5", "NDVI_r_sl", "NBR_r_m_5", "EVI_r_m_3", "EVI_r_m_5",
         "EVI_r_sl", "RVI_r_m_3", "RVI_r_m_5", "RVI_v_5", "DVI_r_m_3",
         "SAVI_mean", "SAVI_r_m_3", "SAVI_r_m_5", "SAVI_r_sl">>,
       <<"a_precip", "NDBI", "NDMI", "NDVI", "NBR", "EVI", "RVI", "DVI",
         "B5_mean", "SAVI", "B3_stdDev", "B3_mean", "B4_mean", "B7_stdDev",
         "B1_mean", "B7_con", "B7_mean", "NDBI_r_m_3", "NDBI_r_sl",
         "NDMI_r_m_5", "NDVI_mean", "NDVI_r_m_5", "NDVI_v_5", "EVI_mean",
         "EVI_c_ac", "EVI_r_m_3", "EVI_v_5", "EVI_r_sl", "RVI_r_m_5",
         "RVI_v_5", "DVI_r_m_5", "SAVI_mean", "SAVI_trend", "SAVI_r_m_5",
         "SAVI_v_5">>,
       <<"a_precip", "NDBI", "NDMI", "NDVI", "NBR", "EVI", "RVI", "DVI",
         "B5_mean", "SAVI", "B3_stdDev", "B3_mean", "B4_mean", "B7_stdDev",
         "B1_mean", "B7_con", "B7_ent", "B7_mean", "NDBI_r_sl", "NDMI_r_m_5",
         "NDVI_mean", "NDVI_r_m_3", "NDVI_r_m_5", "NDVI_v_5", "NBR_r_m_5",
         "RVI_r_m_3", "RVI_r_m_5", "RVI_v_5", "DVI_mean", "DVI_r_m_3",
         "DVI_r_m_5", "SAVI_mean", "SAVI_c_ac", "SAVI_r_m_3", "SAVI_r_m_5",
         "SAVI_v_5", "SAVI_r_sl">>,
       <<"p_precip", "su_temp", "temp_an", "NDBI", "NDMI", "NDVI", "NBR",
         "EVI", "RVI", "DVI", "B5_mean", "SAVI", "B3_stdDev", "B3_mean",
         "B4_mean", "B1_stdDev", "B7_stdDev", "B1_mean", "B7_con", "B7_cor",
         "B7_ent", "B7_mean", "NDBI_r_m_3", "NDMI_r_m_5", "NDVI_mean",
         "NDVI_v_5", "NDVI_r_sl", "NBR_r_m_5", "EVI_c_ac", "EVI_r_m_5",
         "RVI_r_m_5", "DVI_r_m_5", "DVI_v_5", "SAVI_mean", "SAVI_trend">>,
       <<"a_precip", "p_precip", "temp_an", "NDBI", "NDMI", "NDVI", "NBR",
         "EVI", "RVI", "DVI", "B5_mean", "SAVI", "B3_stdDev", "B3_mean",
         "B7_stdDev", "B1_mean", "B7_con", "B7_cor", "B7_mean", "NDBI_r_m_3",
         "NDVI_mean", "NDVI_c_ac", "NDVI_r_m_3", "NDVI_r_m_5", "NDVI_v_5",
         "NDVI_r_sl", "EVI_mean", "EVI_c_ac", "EVI_r_m_3", "EVI_r_m_5",
         "RVI_r_m_5", "RVI_v_5", "DVI_mean", "DVI_r_m_3", "DVI_r_m_5",
         "DVI_v_5", "SAVI_mean", "SAVI_r_m_3", "SAVI_r_m_5">>,
       <<"a_precip", "su_temp", "temp_an", "NDBI", "NDMI", "NDVI", "NBR",
         "EVI", "RVI", "DVI", "B5_mean", "SAVI", "B3_stdDev", "B3_mean",
         "B7_stdDev", "B7_con", "B7_ent", "B7_mean", "NDBI_r_m_3",
         "NDMI_r_m_5", "NDVI_r_m_3", "NDVI_r_m_5", "NDVI_v_5", "NBR_r_m_5",
         "EVI_r_m_3", "EVI_r_m_5", "EVI_v_5", "RVI_r_m_5", "DVI_r_m_5",
         "SAVI_trend", "SAVI_r_m_5">>,
       <<"p_precip", "su_temp", "temp_an", "NDBI", "NDMI", "NDVI", "NBR",
         "EVI", "RVI", "DVI", "B5_mean", "SAVI", "B3_stdDev", "B3_mean",
         "B1_stdDev", "B7_stdDev", "B7_con", "B7_ent", "B7_mean",
         "NDBI_r_m_3", "NDMI_r_m_5", "NDVI_mean", "NDVI_r_sl", "NBR_r_m_5",
         "EVI_mean", "EVI_r_m_3", "EVI_r_m_5", "EVI_v_5", "EVI_r_sl",
         "DVI_r_m_3", "SAVI_mean">>,
       <<"a_precip", "p_precip", "su_temp", "temp_an", "NDBI", "NDMI",
         "NDVI", "NBR", "EVI", "RVI", "DVI", "B5_mean", "SAVI", "B3_mean",
         "B4_mean", "B7_stdDev", "B1_mean", "B7_con", "B7_cor", "B7_ent",
         "B7_mean", "NDBI_r_sl", "NDMI_r_m_5", "NDVI_mean", "NDVI_r_m_3",
         "NBR_r_m_5", "EVI_trend", "EVI_v_5", "RVI_r_m_3", "RVI_r_m_5",
         "DVI_mean", "DVI_r_m_3", "DVI_r_m_5", "DVI_v_5", "SAVI_mean",
         "SAVI_trend", "SAVI_r_m_3">>,
       <<"su_temp", "NDBI", "NDMI", "NDVI", "NBR", "EVI", "RVI", "DVI",
         "B5_mean", "SAVI", "B3_stdDev", "B3_mean", "B1_mean", "B7_mean",
         "NDBI_r_m_3", "NDMI_r_m_5", "NBR_r_m_5", "DVI_r_m_3", "DVI_r_m_5",
         "DVI_v_5", "SAVI_trend">>,
       <<"a_precip", "p_precip", "su_temp", "NDBI", "NDMI", "NDVI", "NBR",
         "EVI", "RVI", "B5_mean", "SAVI", "B3_mean", "B1_mean", "B7_mean",
         "NDVI_r_m_5", "NDVI_v_5">>,
       <<"a_precip", "p_precip", "su_temp", "temp_an", "NDBI", "NDMI",
         "NDVI", "NBR", "EVI", "RVI", "DVI", "B5_mean", "SAVI", "B3_stdDev",
         "B3_mean", "B4_mean", "B1_stdDev", "B7_stdDev", "B1_mean", "B7_con",
         "B7_ent", "B7_mean", "NDBI_r_m_3", "NDVI_mean", "NDVI_r_m_3",
         "NDVI_r_m_5", "NDVI_v_5", "NBR_r_m_5", "EVI_trend", "EVI_v_5",
         "RVI_r_m_3", "RVI_r_m_5", "RVI_v_5", "DVI_mean", "DVI_r_m_3",
         "DVI_r_m_5", "DVI_v_5", "SAVI_mean", "SAVI_r_m_5">>,
       <<"p_precip", "NDBI", "NDMI", "NDVI", "NBR", "EVI", "RVI", "DVI",
         "B5_mean", "SAVI", "B3_stdDev", "B3_mean", "B4_mean", "B1_stdDev",
         "B7_stdDev", "B1_mean", "B7_con", "B7_mean", "NDBI_r_m_3",
         "NDMI_r_m_5", "NDVI_mean", "NDVI_c_ac", "NDVI_r_m_3", "NDVI_r_m_5",
         "NDVI_v_5", "NDVI_r_sl", "NBR_r_m_5", "EVI_mean", "RVI_r_m_5",
         "DVI_r_sl", "SAVI_mean", "SAVI_trend", "SAVI_r_m_5">>
    >>

\* names a feature list may be edited to hold: bands of the annual, texture
\* and climate images, and a name no image has
RequestNames == {"NBR", "B5_mean", "su_temp", "NDBI_r_m_3"}

RECURSIVE SeqsUpTo(_, _)
\* the sequences over S of length 1..n
SeqsUpTo(S, n) ==
    IF n = 0 THEN {}
    ELSE {<<x>> : x \in S}
         \cup {Append(q, x) : q \in SeqsUpTo(S, n - 1), x \in S}

EditedLists == SeqsUpTo(RequestNames, MaxRequest)

\* line 266: featsList[ECOREGION_ID - 1], or a list the user has edited
FeatureLists == NameSet(featsList) \cup EditedLists

InitAssemble ==
    /\ IdleTrain /\ IdleParse /\ IdleTexture /\ IdleScore /\ IdleIndex /\ IdleSmooth
    /\ mpc = "idle"
    /\ TARGET_YEAR \in START_YEAR..MaxTargetYear
    /\ band = INDEX_BANDS[1]
    /\ tsCollection = <<>>
    /\ inAoi = FALSE
    /\ isForest = FALSE
    /\ imgTarget = Unbuilt
    /\ imgPrev1 = Unbuilt
    /\ histCollection_3y = <<>>
    /\ histCollection_5y = <<>>
    /\ histCollection = <<>>
    /\ bands = NoBands
    /\ result = NullValue
    /\ apc = "concatenate"
    /\ optimalFeatures \in FeatureLists
    /\ fullFeatureImage = NullValue
    /\ selectedFeatures = NullValue
    /\ pixelsComputed = FALSE
    /\ reported = NullValue

\* lines 639-643
ConcatenateFeatures ==
    /\ apc = "concatenate"
    /\ fullFeatureImage' = FullFeatureImage(TARGET_YEAR)
    /\ apc' = "select"
    /\ UNCHANGED <<optimalFeatures, selectedFeatures, pixelsComputed, reported,
                   trainVars, mapVars, parseVars, textureVars, scoreVars, indexVars, smoothVars>>

\* line 645
SelectFeatures ==
    /\ apc = "select"
    /\ selectedFeatures' = select(fullFeatureImage, optimalFeatures)
    /\ apc' = "assembled"
    /\ UNCHANGED <<optimalFeatures, fullFeatureImage, pixelsComputed, reported,
                   trainVars, mapVars, parseVars, textureVars, scoreVars, indexVars, smoothVars>>

\* lines 647-684: the platform evaluates the image for the print, the map
\* layer and the export. It resolves the bands of the image first; the
\* pixels are computed only for an image whose bands resolve.
ComputePixels ==
    /\ apc = "assembled"
    /\ selectedFeatures.type = "Image"
    /\ pixelsComputed' = TRUE
    /\ apc' = "computed"
    /\ UNCHANGED <<optimalFeatures, fullFeatureImage, selectedFeatures,
                   reported, trainVars, mapVars, parseVars, textureVars, scoreVars, indexVars,
                   smoothVars>>

\* the platform reports the error of an image that cannot be built
ReportFailure ==
    /\ apc = "assembled"
    /\ selectedFeatures.type = "Error"
    /\ reported' = selectedFeatures.why
    /\ apc' = "failed"
    /\ UNCHANGED <<optimalFeatures, fullFeatureImage, selectedFeatures,
                   pixelsComputed, trainVars, mapVars, parseVars, textureVars, scoreVars, indexVars,
                   smoothVars>>

NextAssemble ==
    \/ ConcatenateFeatures
    \/ SelectFeatures
    \/ ComputePixels
    \/ ReportFailure

SpecAssemble == InitAssemble /\ [][NextAssemble]_vars

-----------------------------------------------------------------------------
(* convertToFloat on a batch of samples, lines 251-254 and 190-212         *)

MaxBatch == 2    \* samples in a batch

\* property values as the library stores them: empty, numeric, not numeric
FeatureStrings == {"", "250", "abc"}
LabelStrings == {"", "2", "x"}

RawSamples == [id : {0}, label : LabelStrings,
               NBR : FeatureStrings \cup {NullValue},
               NBR_chg_ra : {NullValue, "", "250"},
               random : {NullValue}, oversample : {NullValue}]

Batches ==
    {[k \in 1..Len(q) |-> [q[k] EXCEPT !.id = k]] :
        q \in SeqsUpTo(RawSamples, MaxBatch)}

\* ee.Number(...).toInt() of line 207
toInt(number) == number

\* a parse of the feature fails when it is computed
ParseFails(feature) ==
    \/ ~safeParse(feature.NBR).ok
    \/ ~safeParse(feature.NBR_chg_ra).ok
    \/ ~toInt(safeParse(feature.label)).ok

\* collection.map(convertToFloat): a collection, or the error of an element
\* that fails
MapConvertToFloat(collection) ==
    IF \E k \in 1..Len(collection) : ParseFails(collection[k])
    THEN Err("Number.parse: unable to parse")
    ELSE Ok([k \in 1..Len(collection) |-> convertToFloat(collection[k])])

\* collection.filter(...) on a collection that may have failed
FilterQuality(collection) ==
    IF collection.ok THEN Ok(SelectSeq(collection.v, QualityOk)) ELSE collection

InitParse ==
    /\ IdleTrain /\ IdleMap /\ IdleTexture /\ IdleScore /\ IdleIndex /\ IdleAssemble /\ IdleSmooth
    /\ ppc = "convert"
    /\ rawSamples \in Batches
    /\ converted = NullValue
    /\ completeBatch = NullValue

\* lines 251-254 on the batch
ConvertSamples ==
    /\ ppc = "convert"
    /\ converted' = MapConvertToFloat(SelectSeq(rawSamples, NotNull))
    /\ completeBatch' =
           FilterQuality(MapConvertToFloat(SelectSeq(rawSamples, NotNull)))
    /\ ppc' = "converted"
    /\ UNCHANGED <<rawSamples, trainVars, mapVars, textureVars, scoreVars, indexVars, assembleVars,
                   smoothVars>>

NextParse == ConvertSamples

SpecParse == InitParse /\ [][NextParse]_vars

-----------------------------------------------------------------------------
(* Rasters: a band as a value at every pixel of a small grid               *)

RasterHeight == 2
RasterWidth == 3

Pixels == (1..RasterHeight) \X (1..RasterWidth)

\* the pixels of the grid that a square kernel of the radius, centred on p,
\* covers: its side is 2 * radius + 1 pixels
Window(p, radius) ==
    {q \in Pixels : Abs(q[1] - p[1]) <= radius /\ Abs(q[2] - p[2]) <= radius}

\* the unmasked pixels of the window
ValidIn(image, p, radius) == {q \in Window(p, radius) : image[q].k = "num"}

-----------------------------------------------------------------------------
(* Classification and smoothing, lines 655-661                             *)

Classes == 0..3

\* how often the value occurs among the pixels
Frequency(image, pixels, value) ==
    Cardinality({q \in pixels : image[q] = IntPx(value)})

\* the most frequent values among the pixels
Modes(image, pixels) ==
    {v \in Classes :
        /\ Frequency(image, pixels, v) > 0
        /\ \A w \in Classes :
               Frequency(image, pixels, w) <= Frequency(image, pixels, v)}

\* the mode the platform returns when several values are most frequent
Mode(image, pixels) ==
    LET modes == Modes(image, pixels)
    IN  IF modeTie = "lowest"
        THEN CHOOSE v \in modes : \A w \in modes : v <= w
        ELSE CHOOSE v \in modes : \A w \in modes : v >= w

\* image.focal_mode({radius, kernelType: 'square', iterations: 1}): at every
\* pixel the mode of the unmasked pixels under the kernel. The centre pixel
\* counts like any other, so a masked pixel with an unmasked neighbour gets
\* a value; a pixel with no unmasked pixel under the kernel stays masked.
focal_mode(image, radius) ==
    [p \in Pixels |->
        IF ValidIn(image, p, radius) = {} THEN MaskedPx
        ELSE IntPx(Mode(image, ValidIn(image, p, radius)))]

\* image.updateMask(mask)
updateMask(image, mask) ==
    [p \in Pixels |-> IF mask[p] THEN image[p] ELSE MaskedPx]

\* line 658: selectedFeatures.classify(model, 'prediction').updateMask(...)
Classify(predicted, mask) ==
    updateMask([p \in Pixels |-> IntPx(predicted[p])], mask)

\* the rasters of one class, and those of class 0 but for one pixel of class 1
PredictionRasters ==
    {[p \in Pixels |-> c] : c \in Classes}
    \cup {[p \in Pixels |-> IF p = q THEN 1 ELSE 0] : q \in Pixels}

InitSmooth ==
    /\ IdleTrain /\ IdleMap /\ IdleParse /\ IdleTexture /\ IdleScore /\ IdleIndex /\ IdleAssemble
    /\ spc = "classify"
    /\ forestMask \in [Pixels -> BOOLEAN]
    /\ prediction \in PredictionRasters
    /\ modeTie \in {"lowest", "highest"}
    /\ classified = NullValue
    /\ smoothed = NullValue

\* line 658
ClassifyImage ==
    /\ spc = "classify"
    /\ classified' = Classify(prediction, forestMask)
    /\ spc' = "smooth"
    /\ UNCHANGED <<forestMask, prediction, modeTie, smoothed, trainVars,
                   mapVars, parseVars, textureVars, scoreVars, indexVars, assembleVars>>

\* line 661
SmoothImage ==
    /\ spc = "smooth"
    /\ smoothed' = focal_mode(classified, 1)
    /\ spc' = "smoothed"
    /\ UNCHANGED <<forestMask, prediction, modeTie, classified, trainVars,
                   mapVars, parseVars, textureVars, scoreVars, indexVars, assembleVars>>

NextSmooth ==
    \/ ClassifyImage
    \/ SmoothImage

SpecSmooth == InitSmooth /\ [][NextSmooth]_vars

-----------------------------------------------------------------------------
(* First-order texture, lines 359-384, of one reflectance band             *)

\* line 362: ee.Kernel.square(3, 'pixels'); the first argument is the radius
KernelRadius == 3

RECURSIVE SumPixels(_, _, _)
\* the sum of the values (power 1) or of their squares (power 2) over pixels
SumPixels(image, pixels, power) ==
    IF pixels = {} THEN 0
    ELSE LET q == CHOOSE x \in pixels : TRUE
             v == image[q].r[1]
         IN  (IF power = 1 THEN v ELSE v * v)
             + SumPixels(image, pixels \ {q}, power)

\* ee.Reducer.mean() over the pixels
MeanOver(image, pixels) ==
    NumPx(Rat(SumPixels(image, pixels, 1), Cardinality(pixels)))

\* ee.Reducer.stdDev() over the pixels: population standard deviation
StdDevOver(image, pixels) ==
    LET n == Cardinality(pixels)
        sum == SumPixels(image, pixels, 1)
        sumSq == SumPixels(image, pixels, 2)
    IN  SqrtPx(Rat(n * sumSq - sum * sum, n * n))

\* image.reduceNeighborhood(mean, kernel): the mean of the unmasked pixels
\* under the kernel; masked where the input pixel is masked (skipMasked)
NeighborhoodMean(image, radius) ==
    [p \in Pixels |->
        IF image[p].k # "num" THEN MaskedPx
        ELSE MeanOver(image, ValidIn(image, p, radius))]

NeighborhoodStdDev(image, radius) ==
    [p \in Pixels |->
        IF image[p].k # "num" THEN MaskedPx
        ELSE StdDevOver(image, ValidIn(image, p, radius))]

\* lines 364-375 for one band: the two bands added for it
addFirstOrderTexture(name, image) ==
    [names |-> <<name \o "_mean", name \o "_stdDev">>,
     mean |-> NeighborhoodMean(image, KernelRadius),
     stdDev |-> NeighborhoodStdDev(image, KernelRadius)]

\* reflectance values of a pixel: missing, or one of two values
ReflectanceChoices == {MaskedPx, IntPx(0), IntPx(3)}

InitTexture ==
    /\ IdleTrain /\ IdleMap /\ IdleParse /\ IdleAssemble /\ IdleSmooth /\ IdleScore /\ IdleIndex
    /\ tpc = "composite"
    /\ srBand \in NameSet(SR_BANDS)
    /\ srImage \in [Pixels -> ReflectanceChoices]
    /\ textureFeatures1 = NullValue

\* line 630
ExtractTexture ==
    /\ tpc = "composite"
    /\ textureFeatures1' = addFirstOrderTexture(srBand, srImage)
    /\ tpc' = "texture"
    /\ UNCHANGED <<srBand, srImage, trainVars, mapVars, parseVars, scoreVars, indexVars,
                   assembleVars, smoothVars>>

NextTexture == ExtractTexture

SpecTexture == InitTexture /\ [][NextTexture]_vars

-----------------------------------------------------------------------------
(* The Evaluation Record, lines 304-328, and its export, lines 348-360     *)

\* lines 310-326: the keys of the stats dictionary, each with the expression
\* its value is read from
stats ==
    [eco_zone |-> "ECO_ZONE_ID",
     iteration |-> "iteration",
     class1_target |-> "class1Target",
     class2_target |-> "class2Target",
     class3_target |-> "class3Target",
     num_trees |-> "rfParams.trees",
     min_leaf_pop |-> "rfParams.leafPop",
     bag_frac |-> "rfParams.bagFrac",
     split_vars |-> "splitVars",
     overall_accuracy |-> "confusionMatrix.accuracy",
     kappa |-> "confusionMatrix.kappa",
     recall_0 |-> "producersAccuracy.0",
     recall_1 |-> "producersAccuracy.1",
     recall_2 |-> "producersAccuracy.2",
     recall_3 |-> "producersAccuracy.3"]

\* lines 353-359: the columns of the exported CSV
selectors ==
    <<"eco_zone", "iteration",
      "class1_target", "class2_target", "class3_target",
      "num_trees", "min_leaf_pop", "bag_frac", "split_vars",
      "overall_accuracy", "kappa",
      "recall_0", "recall_1", "recall_2", "recall_3">>

-----------------------------------------------------------------------------
(* Scoring, lines 305-321: the confusion matrix and its two scores         *)

\* the quotient 0/0 of a score that has nothing to divide by
NotANumber == <<0, 0>>

\* line 307: errorMatrix('label', 'classification'); rows are the labels of
\* the samples, columns the classes predicted for them
errorMatrix(samples, classification) ==
    [actual \in 0..3 |-> [predicted \in 0..3 |->
        Cardinality({k \in 1..Len(samples) :
                        /\ samples[k].label = actual
                        /\ classification[k] = predicted})]]

RowTotal(matrix, c) ==
    matrix[c][0] + matrix[c][1] + matrix[c][2] + matrix[c][3]

ColumnTotal(matrix, c) ==
    matrix[0][c] + matrix[1][c] + matrix[2][c] + matrix[3][c]

MatrixTotal(matrix) ==
    RowTotal(matrix, 0) + RowTotal(matrix, 1) + RowTotal(matrix, 2)
    + RowTotal(matrix, 3)

Diagonal(matrix) ==
    matrix[0][0] + matrix[1][1] + matrix[2][2] + matrix[3][3]

\* line 320: confusionMatrix.accuracy(), correct / total
accuracy(matrix) ==
    IF MatrixTotal(matrix) = 0 THEN NotANumber
    ELSE Rat(Diagonal(matrix), MatrixTotal(matrix))

\* the agreement expected by chance: sum of row total * column total / n^2
ChanceAgreement(matrix) ==
    Rat(RowTotal(matrix, 0) * ColumnTotal(matrix, 0)
        + RowTotal(matrix, 1) * ColumnTotal(matrix, 1)
        + RowTotal(matrix, 2) * ColumnTotal(matrix, 2)
        + RowTotal(matrix, 3) * ColumnTotal(matrix, 3),
        MatrixTotal(matrix) * MatrixTotal(matrix))

\* line 321: confusionMatrix.kappa(), (observed - chance) / (1 - chance)
kappa(matrix) ==
    IF MatrixTotal(matrix) = 0 THEN NotANumber
    ELSE IF ChanceAgreement(matrix) = <<1, 1>> THEN NotANumber
    ELSE RatDiv(RatSub(accuracy(matrix), ChanceAgreement(matrix)),
                RatSub(<<1, 1>>, ChanceAgreement(matrix)))

MaxHeldOut == 3        \* size of the largest held-out pool scored

\* held-out pools: 1..MaxHeldOut samples with a label in 0..3
HeldOutPools ==
    UNION {[1..n -> [label : 0..3]] : n \in 1..MaxHeldOut}

\* the trained ensemble may predict any class for any sample
InitScore ==
    /\ IdleTrain /\ IdleMap /\ IdleParse /\ IdleTexture /\ IdleAssemble
    /\ IdleSmooth /\ IdleIndex
    /\ scpc = "classify"
    /\ testFeatures \in HeldOutPools
    /\ testClassification \in [1..Len(testFeatures) -> 0..3]
    /\ confusionMatrix = NullValue
    /\ scores = NullValue

\* lines 307, 320, 321
ScoreClassification ==
    /\ scpc = "classify"
    /\ confusionMatrix' = errorMatrix(testFeatures, testClassification)
    /\ scores' =
           [overall_accuracy |->
                accuracy(errorMatrix(testFeatures, testClassification)),
            kappa |-> kappa(errorMatrix(testFeatures, testClassification))]
    /\ scpc' = "scored"
    /\ UNCHANGED <<testFeatures, testClassification, trainVars, mapVars, indexVars,
                   parseVars, textureVars, assembleVars, smoothVars>>

NextScore == ScoreClassification

SpecScore == InitScore /\ [][NextScore]_vars

-----------------------------------------------------------------------------
(* addIndices, lines 321-352, at one pixel of a yearly composite           *)

ImageMultiply(a, b) == Binary(a, b, RatMul(a.px.r, b.px.r))

\* a constant image
Constant(n, d) == Image(NumPx(Rat(n, d)))

\* image.normalizedDifference([a, b]): (a - b) / (a + b); the pixel is masked
\* where an input is negative.  What the pixel holds where a + b = 0 is not
\* fixed by the script: the number 0 or no value.
normalizedDifference(a, b) ==
    IF a.px.k # "num" \/ b.px.k # "num" THEN Binary(a, b, <<0, 1>>)
    ELSE IF a.px.r[1] < 0 \/ b.px.r[1] < 0 THEN Image(MaskedPx)
    ELSE IF RatAdd(a.px.r, b.px.r)[1] = 0
         THEN (IF zeroSum = "zero" THEN Constant(0, 1) ELSE Image(MaskedPx))
    ELSE Image(NumPx(RatDiv(RatSub(a.px.r, b.px.r), RatAdd(a.px.r, b.px.r))))

\* lines 329-334: (1 + L) * (NIR - RED) / (NIR + RED + L), L = 0.5
SaviExpression(nir, red) ==
    ImageDivide(ImageMultiply(Constant(3, 2), ImageSubtract(nir, red)),
                ImageAdd(ImageAdd(nir, red), Constant(1, 2)))

\* lines 336-341: 2.5 * ((NIR - RED) / (NIR + 6 * RED - 7.5 * BLUE + 1))
EviExpression(nir, red, blue) ==
    ImageMultiply(Constant(5, 2),
        ImageDivide(ImageSubtract(nir, red),
            ImageAdd(ImageSubtract(ImageAdd(nir, ImageMultiply(Constant(6, 1), red)),
                                   ImageMultiply(Constant(15, 2), blue)),
                     Constant(1, 1))))

Times1000(a) == ImageMultiply(a, Constant(1000, 1))

\* lines 321-352: the index bands added to the image
addIndices(image) ==
    [NBR  |-> Times1000(normalizedDifference(image.B4, image.B7)),
     NDVI |-> Times1000(normalizedDifference(image.B4, image.B3)),
     NDMI |-> Times1000(normalizedDifference(image.B4, image.B5)),
     NDBI |-> Times1000(normalizedDifference(image.B5, image.B4)),
     RVI  |-> Times1000(ImageDivide(image.B4, image.B3)),
     SAVI |-> Times1000(SaviExpression(image.B4, image.B3)),
     EVI  |-> Times1000(EviExpression(image.B4, image.B3, image.B1)),
     DVI  |-> ImageSubtract(image.B4, image.B3)]

\* surface reflectance of a band at the pixel, as the scaled integer of the
\* composite: missing, below zero, zero, or above zero
SrChoices == {Image(MaskedPx), Image(IntPx(-1)), Image(IntPx(0)), Image(IntPx(2))}

InitIndex ==
    /\ IdleTrain /\ IdleMap /\ IdleParse /\ IdleTexture /\ IdleAssemble
    /\ IdleSmooth /\ IdleScore
    /\ ipc = "composite"
    /\ composite \in [B1 : SrChoices, B3 : SrChoices, B4 : SrChoices,
                B5 : SrChoices, B7 : SrChoices]
    /\ zeroSum \in {"zero", "masked"}
    /\ withIndices = NullValue

\* line 624: srCollection.map(addIndices), for one image
AddIndices ==
    /\ ipc = "composite"
    /\ withIndices' = addIndices(composite)
    /\ ipc' = "indices"
    /\ UNCHANGED <<composite, zeroSum, trainVars, mapVars, parseVars, textureVars,
                   assembleVars, smoothVars, scoreVars>>

NextIndex == AddIndices

SpecIndex == InitIndex /\ [][NextIndex]_vars

-----------------------------------------------------------------------------
(* The feature subsets of the training script and the classifier           *)
(* configuration, lines 53-92 and 286-296                                  *)

\* lines 55-89: the feature subsets of the 35 regions, in region order
optimalFeaturesByZone ==
    <<<<"NBR", "NBR_chg_ra", "NBR_rol_3y">>,
      <<"NBR_chg_ra", "NBR", "NDMI", "NBR_rol_3y">>,
      <<"NBR", "NDMI", "NBR_rol_3y", "NDBI", "NBR_rol_5y", "RVI",
         "NDMI_rol_5", "SAVI", "NBR_chg_ra">>,
      <<"NBR", "NBR_rol_3y", "NDMI", "NBR_rol_5y", "NDBI", "NDMI_chg_r",
         "NDBI_chg_r", "NBR_chg_ra", "NDMI_rol_3", "NDBI_rol_3">>,
      <<"NBR", "NDBI", "NBR_rol_5y", "NDMI", "NDMI_rol_5", "NDMI_rol_3",
         "NBR_rol_3y", "NBR_chg_ra">>,
      <<"NBR_chg_ra", "NBR", "NBR_rol_3y">>,
      <<"NDMI", "NBR", "NDBI", "NBR_rol_3y", "NBR_rol_5y", "NDMI_rol_3",
         "NDMI_rol_5", "NDBI_rol_3", "NBR_chg_ac", "NBR_chg_ra",
         "EVI">>,
      <<"NBR", "NBR_rol_5y", "NDMI", "NBR_rol_3y", "NBR_chg_ra">>,
      <<"NBR", "NBR_rol_3y", "NBR_rol_5y">>,
      <<"NBR", "NDMI", "NDBI", "NBR_chg_ra", "NBR_trend", "NBR_rol_5y",
         "EVI_mean">>,
      <<"NBR", "NBR_rol_5y", "NDMI", "NDBI", "NBR_rol_3y", "NDMI_rol_5",
         "NDBI_rol_3">>,
      <<"NBR", "NBR_rol_5y", "NDMI_rol_5", "NDMI">>,
      <<"NBR_rol_5y", "NBR", "NDMI", "NDBI", "NBR_chg_ra", "NBR_rol_3y">>,
      <<"NBR", "NBR_rol_3y", "NDBI", "NBR_rol_5y">>,
      <<"NBR_rol_5y", "NBR", "NDMI", "NBR_vola_5", "NBR_rol_3y", "NDBI",
         "NBR_chg_ra">>,
      <<"NBR", "NBR_rol_3y", "NBR_rol_5y", "NDMI", "NDBI", "NBR_trend",
         "NDMI_rol_5">>,
      <<"NBR", "NBR_rol_5y", "NDBI", "NDMI", "NBR_chg_ra", "NDMI_rol_5",
         "NBR_rol_3y">>,
      <<"NBR", "NBR_rol_5y", "NDBI", "NDMI", "NBR_rol_3y", "NBR_chg_ra">>,
      <<"NBR", "NDBI", "NBR_rol_5y">>,
      <<"NBR", "NDMI", "NBR_rol_5y", "NDBI", "NBR_rol_3y", "NDMI_rol_5",
         "RVI_rol_5y", "NDBI_rol_3", "NDVI_rol_3", "NBR_chg_ra",
         "NBR_an_cha">>,
      <<"NBR", "NBR_rol_3y", "NDBI", "NDMI", "NBR_rol_5y", "NDBI_rol_3",
         "NDMI_rol_3", "NDMI_rol_5", "EVI", "NBR_chg_ra">>,
      <<"NBR", "NDMI", "NDBI", "NBR_chg_ra", "NBR_rol_3y">>,
      <<"NBR", "NBR_rol_5y", "NBR_rol_3y", "NDMI", "NDBI", "NDMI_rol_5",
         "NBR_chg_ra", "SAVI_rol_3">>,
      <<"NBR", "NBR_rol_5y", "NDBI", "NDMI", "NBR_rol_3y", "NBR_chg_ra",
         "NDVI">>,
      <<"NBR", "NDBI", "NBR_rol_3y", "NDMI", "NBR_rol_5y", "NBR_chg_ra">>,
      <<"NBR", "NDBI", "NBR_rol_3y", "NDMI", "NBR_trend">>,
      <<"NBR", "NBR_rol_5y", "NDMI", "NDBI", "NBR_chg_ra", "NBR_rol_3y">>,
      <<"NBR_rol_3y", "NBR", "NDBI", "NDMI", "NBR_rol_5y", "NBR_chg_ra">>,
      <<"NBR", "NDBI", "NDMI", "NBR_rol_3y", "NDVI_rol_3", "SAVI_rol_3",
         "NBR_rol_5y", "NDMI_rol_5", "RVI", "NDBI_rol_3", "NBR_an_cha",
         "NBR_reco_s", "NDMI_rol_3", "NDVI", "NBR_chg_ra">>,
      <<"NBR", "NDMI", "NBR_rol_3y", "NDVI_rol_3", "NDBI", "NBR_rol_5y",
         "NBR_chg_ra">>,
      <<"NBR_chg_ra", "NBR", "NDMI", "NBR_rol_3y", "NDBI", "NDMI_rol_3",
         "NDBI_rol_3", "NBR_trend", "NDVI">>,
      <<"NDBI", "NDMI", "NBR", "NDMI_rol_3", "NBR_rol_3y", "NBR_chg_ra",
         "NDBI_rol_3", "NBR_rol_5y", "NDBI_chg_r", "NDMI_rol_5",
         "NDMI_chg_r", "NBR_an_cha">>,
      <<"NBR", "NDBI", "NDMI", "NBR_chg_ra", "NDMI_rol_5", "NBR_trend",
         "NBR_rol_5y">>,
      <<"NBR", "NBR_chg_ra", "NDMI", "NBR_rol_5y", "NDMI_rol_5", "NDBI",
         "NBR_rol_3y">>,
      <<"NBR", "NBR_chg_ra", "NBR_rol_3y">> >>

\* line 92: eval('optimalFeatures' + ECO_ZONE_ID)
trainingFeatures == optimalFeaturesByZone[ECO_ZONE_ID]

\* line 287
numFeatures == Len(trainingFeatures)

\* line 289: numFeatures.multiply(splitVarFactor).sqrt().int(), with the
\* fraction in percent; int() drops the fractional part
splitVars(n, splitVarFactor) == ISqrt((n * splitVarFactor) \div 100, 0)

\* lines 280-284: the label-0 samples of the training pool merged with the
\* three oversampled classes
balancedTrainingSet(training, class1, class2, class3) ==
    LET IsStable(f) == f.label = 0
    IN  SelectSeq(training, IsStable) \o class1 \o class2 \o class3

-----------------------------------------------------------------------------
(* Properties of the training script                                       *)

PcOrder == <<"idle", "start", "filter", "split", "sizes", "over1", "over2", "over3",
             "aborted", "exported">>

PcIndex(p) == CHOOSE k \in 1..Len(PcOrder) : PcOrder[k] = p

\* the script is past the statement that leaves position p
Past(p) == PcIndex(pc) > PcIndex(p)

\* the script has stopped: it ran to its last line or an exception ended it
ScriptEnded == pc \in {"aborted", "exported"}

Ids(collection) == {collection[k].id : k \in 1..Len(collection)}

IsLabel1(f) == f.label = 1
IsLabel2(f) == f.label = 2
IsLabel3(f) == f.label = 3

\* the samples of class c in the training pool of iteration i
ClassSamples(i, c) ==
    CASE c = 1 -> SelectSeq(trainingOriginal[i], IsLabel1)
      [] c = 2 -> SelectSeq(trainingOriginal[i], IsLabel2)
      [] OTHER -> SelectSeq(trainingOriginal[i], IsLabel3)

ObservedSize(i, c) == Len(ClassSamples(i, c))

Target(i, c) == Combination(i).targetSizes[c]

\* C1: when the grid search has ended, the results hold exactly m*n
\* Evaluation Records, one for each combination of the Cartesian product.
GridSearchScoresEveryCombination ==
    ScriptEnded =>
        /\ results # NullValue
        /\ Len(results) = NumTargetSizes * NumRfParams
        /\ \A i \in Iterations :
               Cardinality({k \in 1..Len(results) : results[k].iteration = i}) = 1

\* C2: once class c of 1..3 has been balanced for a combination, with
\* observed size s > 0 and target t: the balanced class holds exactly t
\* samples when t > s, and exactly the s original samples when t <= s.
OversamplingReachesTarget ==
    \A i \in Iterations : \A c \in {1, 2} :
        LET built == IF c = 1 THEN Past("over1") ELSE Past("over2")
            o == IF c = 1 THEN oversampledClass1[i] ELSE oversampledClass2[i]
            s == ObservedSize(i, c)
            t == Target(i, c)
        IN  (built /\ s > 0) =>
                /\ o.ok
                /\ t > s => Len(o.v) = t
                /\ t <= s => o.v = ClassSamples(i, c)

\* some disturbance class has no sample in the training pool of iteration i
ZeroClass(i) == \E c \in 1..3 : ObservedSize(i, c) = 0

\* the errors the script has reported to its user
ReportedErrors == IF pc = "aborted" THEN {thrown} ELSE {}

\* C3: when a disturbance class has no sample in the training pool of a
\* combination, the evaluation ends in a reported error that names the
\* region id and the combination index, and no record is scored for it.
ZeroClassIsReportedWithIds ==
    \A i \in Iterations :
        (ScriptEnded /\ ZeroClass(i)) =>
            /\ \E e \in ReportedErrors :
                   /\ {"eco_zone", "iteration"} \subseteq DOMAIN e
                   /\ e.eco_zone = ECO_ZONE_ID
                   /\ e.iteration = i
            /\ results = NullValue

\* the training and the test pool of iteration i split the filtered samples
PoolsPartition(i) ==
    /\ Ids(trainingOriginal[i]) \cap Ids(testingSet[i]) = {}
    /\ Ids(trainingOriginal[i]) \cup Ids(testingSet[i]) = Ids(completeSamples)

\* the balanced classes built for iteration i hold training-pool samples only
BalancedFromTrainingOnly(i) ==
    /\ oversampledClass1[i].ok => Ids(oversampledClass1[i].v) \subseteq Ids(trainingOriginal[i])
    /\ oversampledClass2[i].ok => Ids(oversampledClass2[i].v) \subseteq Ids(trainingOriginal[i])

\* C4: an evaluation runs filter, split, balance, train and score in this
\* order; its pools are disjoint and cover the filtered samples; the
\* balanced training set holds training-pool samples only.
EvaluationRunsAllStepsInOrder ==
    ScriptEnded =>
        /\ steps = <<"filter", "split", "balance", "train", "score">>
        /\ \A i \in Iterations : PoolsPartition(i) /\ BalancedFromTrainingOnly(i)

\* what holds of the steps that do run
PoolsPartitionWhenSplit ==
    Past("split") => \A i \in Iterations : PoolsPartition(i)

BalancedFromTrainingWhenBuilt ==
    Past("over2") => \A i \in Iterations : BalancedFromTrainingOnly(i)

\* C5: the split of a combination depends on the library and the index
\* only: the seed of index i is i + 100, two indices never share a seed,
\* and a second run of the script on the same library builds the same
\* training and test pool for every index.
SplitDependsOnIndexOnly ==
    Past("split") =>
        /\ \A i \in Iterations : seedUsed[i] = i + 100
        /\ \A i, j \in Iterations : i # j => seedUsed[i] # seedUsed[j]
        /\ run > 1 =>
               \A i \in Iterations :
                   /\ seedUsed[i] = prevSplit.seed[i]
                   /\ trainingOriginal[i] = prevSplit.training[i]
                   /\ testingSet[i] = prevSplit.testing[i]

\* a second run has split a library in which some index has samples in
\* both pools and two indices have different training pools
SplitRepeatedWitness ==
    /\ run > 1
    /\ Past("split")
    /\ \E i \in Iterations : trainingOriginal[i] # <<>> /\ testingSet[i] # <<>>
    /\ \E i, j \in Iterations : Ids(trainingOriginal[i]) # Ids(trainingOriginal[j])

\* the evaluation of combination i holds a value that fails when it is
\* computed: a class of 1..3 is absent from its training pool (lines 272-274)
FailsWhenComputed(i) == \E c \in 1..3 : ~multipliers[i][c].ok

\* the collection holds the Evaluation Record of combination i
HasRecord(collection, i) ==
    /\ collection # NullValue
    /\ \E k \in 1..Len(collection) : collection[k].iteration = i

\* C13: a failure while evaluating one combination does not abort the
\* others: the records of all sibling combinations are still produced and
\* exported, and the failure is reported for the failed combination alone.
FailureSparesSiblings ==
    ScriptEnded =>
        \A i \in Iterations : \A j \in Iterations :
            (FailsWhenComputed(i) /\ ~FailsWhenComputed(j)) =>
                /\ HasRecord(results, j)
                /\ HasRecord(exported, j)
                /\ ~HasRecord(exported, i)

\* class c has no sample in the pool combination i is scored on
AbsentFromScoring(i, c) ==
    \A k \in 1..Len(testingSet[i]) : testingSet[i][k].label # c

\* the Evaluation Record of combination i in the collection
RecordOf(collection, i) ==
    CHOOSE rec \in {collection[k] : k \in 1..Len(collection)} : rec.iteration = i

\* the recall a record reports for class c
RecallOf(rec, c) ==
    CASE c = 0 -> rec.recall_0
      [] c = 1 -> rec.recall_1
      [] c = 2 -> rec.recall_2
      [] OTHER -> rec.recall_3

\* C14: when a class in 0..3 is absent from the pool used for scoring, the
\* Evaluation Record of the combination exists and reports that class's
\* recall as missing.
AbsentClassRecallIsMissing ==
    ScriptEnded =>
        \A i \in Iterations : \A c \in 0..3 :
            AbsentFromScoring(i, c) =>
                /\ HasRecord(results, i)
                /\ RecallOf(RecordOf(results, i), c) = NullValue

\* the values the fixed columns hold: region id, iteration index, the 3
\* class targets, the 4 ensemble hyperparameters, the split-variable count,
\* accuracy, kappa and the 4 recalls
FixedColumns ==
    {"ECO_ZONE_ID", "iteration", "class1Target", "class2Target",
     "class3Target", "rfParams.trees", "rfParams.leafPop", "rfParams.bagFrac",
     "rfParams.splitVar", "splitVars", "confusionMatrix.accuracy",
     "confusionMatrix.kappa", "producersAccuracy.0", "producersAccuracy.1",
     "producersAccuracy.2", "producersAccuracy.3"}

\* a key of the record and a column of the CSV hold the value
HasColumn(value) ==
    \E key \in DOMAIN stats :
        /\ stats[key] = value
        /\ \E k \in 1..Len(selectors) : selectors[k] = key

\* C18: every Evaluation Record, and every row of the exported CSV, has the
\* fixed columns: region id, iteration index, the 3 class targets, all 4
\* ensemble hyperparameters (split-variable fraction included), the
\* split-variable count, overall accuracy, kappa and the 4 recalls.
RecordsHaveFixedColumns ==
    ScriptEnded =>
        \A i \in Iterations :
            /\ HasRecord(results, i)
            /\ HasRecord(exported, i)
            /\ \A value \in FixedColumns : HasColumn(value)

\* what the dictionary and the selectors hold: every fixed column but the
\* split-variable fraction
ColumnsWritten ==
    /\ \A value \in FixedColumns \ {"rfParams.splitVar"} : HasColumn(value)
    /\ ~HasColumn("rfParams.splitVar")
    /\ Len(selectors) = 15

\* the pools of combination i are computed from the library and i alone,
\* whatever the other combinations are
PoolsFromOwnIndex(i) ==
    /\ seedUsed[i] = Seed(i)
    /\ trainingOriginal[i] = SelectSeq(WithRandom(i), InTraining)
    /\ testingSet[i] = SelectSeq(WithRandom(i), InTesting)

\* C19: the evaluations of the combinations of one region are mutually
\* independent: every combination i has its Evaluation Record, scored on the
\* pools computed from the library and i alone, whatever the order in which
\* the combinations are evaluated, and the library is not changed.
EvaluationsAreIndependent ==
    ScriptEnded =>
        \A i \in Iterations :
            /\ PoolsFromOwnIndex(i)
            /\ HasRecord(results, i)
            /\ RecordOf(results, i).iteration = i

\* what holds: the pools of every combination come from its own index
PoolsAreIndependent ==
    ScriptEnded => \A i \in Iterations : PoolsFromOwnIndex(i)

\* what holds: no step of the script changes the sample-point library
LibraryNeverChanged == [][sampledPoints' = sampledPoints]_vars

\* the number of samples of class c in the pool
ClassCount(pool, c) == Cardinality({k \in 1..Len(pool) : pool[k].label = c})

\* c is a most frequent class of the pool
IsMajority(pool, c) == \A d \in 0..3 : ClassCount(pool, d) <= ClassCount(pool, c)

\* the classification that gives class c to every sample of the pool
Everywhere(pool, c) == [k \in 1..Len(pool) |-> c]

\* the proportion of class c in the pool
Proportion(pool, c) == Rat(ClassCount(pool, c), Len(pool))

\* C20: when the classifier predicts the majority class for every held-out
\* sample, the Evaluation Record of the combination exists and, its scores
\* being those of that classification, its overall accuracy is the
\* proportion of the majority class in the held-out set and its kappa is 0.
MajorityPredictorIsRecorded ==
    ScriptEnded =>
        \A i \in Iterations : \A c \in 0..3 :
            (Len(testingSet[i]) > 0 /\ IsMajority(testingSet[i], c)) =>
                /\ HasRecord(results, i)
                /\ (/\ RecordOf(results, i).overall_accuracy =
                           accuracy(errorMatrix(testingSet[i],
                                                Everywhere(testingSet[i], c)))
                    /\ RecordOf(results, i).kappa =
                           kappa(errorMatrix(testingSet[i],
                                             Everywhere(testingSet[i], c))))
                   => (/\ RecordOf(results, i).overall_accuracy =
                              Proportion(testingSet[i], c)
                       /\ RecordOf(results, i).kappa = <<0, 1>>)

\* the classifier scored predicts the majority class c everywhere
PredictsMajority(c) ==
    /\ scpc = "scored"
    /\ IsMajority(testFeatures, c)
    /\ testClassification = Everywhere(testFeatures, c)

\* the held-out pool holds samples of class c only
PurePool(c) == ClassCount(testFeatures, c) = Len(testFeatures)

\* what holds of the two scores of line 320 and 321: for the majority
\* classifier the accuracy is the majority proportion, and kappa is 0 when
\* the held-out pool holds more than one class
MajorityScores ==
    \A c \in 0..3 :
        PredictsMajority(c) =>
            /\ scores.overall_accuracy = Proportion(testFeatures, c)
            /\ ~PurePool(c) => scores.kappa = <<0, 1>>

\* on a held-out pool of one class the chance agreement is 1 and kappa is
\* the quotient 0/0, not 0
MajorityScoresOnPurePool ==
    \A c \in 0..3 :
        (PredictsMajority(c) /\ PurePool(c)) =>
            /\ scores.overall_accuracy = <<1, 1>>
            /\ scores.kappa = NotANumber

\* a majority classifier scored on a held-out pool of more than one class
MajorityMixedWitness ==
    \E c \in 0..3 : PredictsMajority(c) /\ ~PurePool(c)

\* a majority classifier scored on a held-out pool of one class
MajorityPureWitness ==
    \E c \in 0..3 : PredictsMajority(c) /\ PurePool(c) /\ Len(testFeatures) > 1

\* k is the floor of the square root of n * f, f in percent
IsFloorSqrt(k, n, f) ==
    /\ k >= 0
    /\ k * k * 100 <= n * f
    /\ (k + 1) * (k + 1) * 100 > n * f

\* C22: for the region's feature count n and every configuration's
\* split-variable fraction f, the split-variable count written to the
\* Evaluation Record is floor(sqrt(n * f)).
SplitVarsIsRecorded ==
    ScriptEnded =>
        \A i \in Iterations :
            /\ HasRecord(results, i)
            /\ IsFloorSqrt(RecordOf(results, i).split_vars, numFeatures,
                           Combination(i).rfParams.splitVar)

\* what holds of line 289: for the feature count of every region and the
\* fraction of every shipped configuration the count is floor(sqrt(n * f))
SplitVarsIsFloorSqrt ==
    \A zone \in 1..Len(optimalFeaturesByZone) :
        \A k \in 1..Len(rfParamsShipped) :
            IsFloorSqrt(splitVars(Len(optimalFeaturesByZone[zone]),
                                  rfParamsShipped[k].splitVar),
                        Len(optimalFeaturesByZone[zone]),
                        rfParamsShipped[k].splitVar)

\* the number of elements of the collection with the id
Copies(collection, id) ==
    Cardinality({k \in 1..Len(collection) : collection[k].id = id})

\* the collection holds each label-0 sample of the pool exactly once and no
\* other label-0 sample
StableClassUntouched(collection, pool) ==
    /\ \A k \in 1..Len(pool) :
           pool[k].label = 0 => Copies(collection, pool[k].id) = 1
    /\ \A k \in 1..Len(collection) :
           collection[k].label = 0 =>
               \E j \in 1..Len(pool) : pool[j] = collection[k]

\* the three classes are balanced without an error
ClassesBalanced(i) ==
    /\ oversampledClass1[i].ok
    /\ oversampledClass2[i].ok
    /\ oversampleClass(trainingOriginal[i], 3, multipliers[i][3]).ok

\* the set lines 280-284 denote for combination i, with the function
\* oversampleClass applied to class 3
BalancedSetOf(i) ==
    balancedTrainingSet(trainingOriginal[i], oversampledClass1[i].v,
                        oversampledClass2[i].v,
                        oversampleClass(trainingOriginal[i], 3,
                                        multipliers[i][3]).v)

\* C23: balancing leaves the stable class untouched: for every combination
\* the balanced training set is built and contains each label-0 sample of
\* the training pool exactly once and no other label-0 sample.
BalancingKeepsStableClass ==
    ScriptEnded =>
        \A i \in Iterations :
            /\ pc # "aborted"
            /\ ClassesBalanced(i) =>
                   StableClassUntouched(BalancedSetOf(i), trainingOriginal[i])

\* the collection holds no label-0 sample
NoStableSample(collection) ==
    \A k \in 1..Len(collection) : collection[k].label # 0

\* what holds of the parts lines 280-284 merge: the filter of line 281 keeps
\* each label-0 sample of the pool once, and an oversampled class holds no
\* label-0 sample
MergedPartsKeepStableClass ==
    ScriptEnded =>
        \A i \in Iterations :
            /\ StableClassUntouched(
                   balancedTrainingSet(trainingOriginal[i], <<>>, <<>>, <<>>),
                   trainingOriginal[i])
            /\ oversampledClass1[i].ok => NoStableSample(oversampledClass1[i].v)
            /\ oversampledClass2[i].ok => NoStableSample(oversampledClass2[i].v)

\* a run whose training pool holds a label-0 sample next to an oversampled
\* class
StableSampleWitness ==
    /\ ScriptEnded
    /\ \E i \in Iterations :
           /\ oversampledClass1[i].ok
           /\ Len(oversampledClass1[i].v) > 1
           /\ \E k \in 1..Len(trainingOriginal[i]) :
                  trainingOriginal[i][k].label = 0

\* the record carries the class targets and the ensemble parameters of the
\* triple and the configuration
Carries(rec, triple, config) ==
    /\ rec.class1_target = triple[1]
    /\ rec.class2_target = triple[2]
    /\ rec.class3_target = triple[3]
    /\ rec.num_trees = config.trees
    /\ rec.min_leaf_pop = config.leafPop
    /\ rec.bag_frac = config.bagFrac

\* C27: a combination is identified by its position in the enumerated grid:
\* the record with iteration = i carries the class targets of target-size
\* triple number (i div n) and the ensemble parameters of configuration
\* number (i mod n), n the number of configurations (9 as shipped), and two
\* different indices never denote the same combination.
RecordIdentifiedByPosition ==
    ScriptEnded =>
        \A i \in Iterations :
            /\ HasRecord(results, i)
            /\ Carries(RecordOf(results, i),
                       targetSizesGrid[(i \div Len(rfParamsGrid)) + 1],
                       rfParamsGrid[(i % Len(rfParamsGrid)) + 1])
            /\ \A j \in Iterations : i # j => Combination(i) # Combination(j)

\* what holds of the enumeration of lines 170-177: index i denotes triple
\* (i div n) with configuration (i mod n), and different indices denote
\* different combinations
GridEnumeratedByPosition ==
    Past("start") =>
        /\ Len(allCombinations) = Len(targetSizesGrid) * Len(rfParamsGrid)
        /\ \A i \in Iterations :
               /\ allCombinations[i + 1].targetSizes =
                      targetSizesGrid[(i \div Len(rfParamsGrid)) + 1]
               /\ allCombinations[i + 1].rfParams =
                      rfParamsGrid[(i % Len(rfParamsGrid)) + 1]
               /\ \A j \in Iterations :
                      i # j => allCombinations[i + 1] # allCombinations[j + 1]

-----------------------------------------------------------------------------
(* Properties of the trajectory features                                   *)

\* calculateAnnualFeatures has returned its image
FeaturesBuilt == mpc = "features"

\* the pixel is one the output keeps: inside the region and forest
KeptPixel == inAoi /\ isForest

\* the number of years lo..hi in which the series holds an unmasked value
ValidYears(lo, hi) ==
    Cardinality({k \in 1..Len(tsCollection) :
        /\ tsCollection[k].composite_year >= lo
        /\ tsCollection[k].composite_year <= hi
        /\ tsCollection[k].px.k = "num"})

\* the series is a + D * year in every year before the target year
IsLinearBefore(a, D) ==
    \A k \in 1..Len(tsCollection) :
        tsCollection[k].composite_year < TARGET_YEAR =>
            tsCollection[k].px = IntPx(a + D * tsCollection[k].composite_year)

\* C6: for a series a + D * year, with at least two years before the target
\* year, the trend band equals D; with three years in [T-3, T-1] the reco_s
\* band equals D as well.
TrendOfLinearSeriesIsItsSlope ==
    \A a \in Offsets : \A D \in Slopes :
        (FeaturesBuilt /\ KeptPixel /\ IsLinearBefore(a, D)) =>
            /\ TARGET_YEAR - START_YEAR >= 2 => result["trend"] = IntPx(D)
            /\ TARGET_YEAR - START_YEAR >= 3 => result["reco_s"] = IntPx(D)

\* C7: when fewer than two years of the regression window hold a value at
\* the pixel, the slope band is missing there.
SlopeMissingBelowTwoYears ==
    FeaturesBuilt =>
        /\ ValidYears(START_YEAR, TARGET_YEAR - 1) < 2 => result["trend"] = MaskedPx
        /\ ValidYears(TARGET_YEAR - 3, TARGET_YEAR - 1) < 2 => result["reco_s"] = MaskedPx

\* what holds where the previous year exists (T > START_YEAR)
SlopeMissingBelowTwoYearsAfterStart ==
    (FeaturesBuilt /\ TARGET_YEAR > START_YEAR) =>
        /\ ValidYears(START_YEAR, TARGET_YEAR - 1) < 2 => result["trend"] = MaskedPx
        /\ ValidYears(TARGET_YEAR - 3, TARGET_YEAR - 1) < 2 => result["reco_s"] = MaskedPx

\* the values of the target year and of the year before, where both exist
HasBothYears ==
    /\ TARGET_YEAR > START_YEAR
    /\ ValidYears(TARGET_YEAR - 1, TARGET_YEAR) = 2

ValueIn(y) == tsCollection[y - START_YEAR + 1].px.r

\* C8: the relative annual change equals (I_T - I_{T-1}) / max(|I_{T-1}|, 1e-5)
RelativeChangeIsGuardedQuotient ==
    (FeaturesBuilt /\ KeptPixel /\ HasBothYears) =>
        result["chg_ra"] =
            NumPx(RatDiv(RatSub(ValueIn(TARGET_YEAR), ValueIn(TARGET_YEAR - 1)),
                         RatMax(RatAbs(ValueIn(TARGET_YEAR - 1)), Epsilon)))

\* C9: where the previous year's value is 0 and the target year has a
\* value, the relative annual change is the number 0.
RelativeChangeZeroWhenPreviousZero ==
    (FeaturesBuilt /\ KeptPixel /\ HasBothYears
        /\ ValueIn(TARGET_YEAR - 1) = <<0, 1>>) =>
        result["chg_ra"] = IntPx(0)

\* the previous year is 0, the target year is not, and the band is built
PreviousZeroWitness ==
    /\ FeaturesBuilt /\ KeptPixel /\ HasBothYears
    /\ ValueIn(TARGET_YEAR - 1) = <<0, 1>>
    /\ ValueIn(TARGET_YEAR) # <<0, 1>>
    /\ result["chg_ra"] = IntPx(0)

\* the series is the constant c in every year of [T-5, T-1]
ConstantWindow(c) ==
    /\ TARGET_YEAR - 5 >= START_YEAR
    /\ \A y \in (TARGET_YEAR - 5)..(TARGET_YEAR - 1) : tsCollection[y - START_YEAR + 1].px = IntPx(c)

WindowValues == {2, 0}

\* C10: for a band that is the constant c in every year of [T-5, T-1], the
\* volatility is 0 and the 5-year minimum and the 3-year mean are c.
ConstantWindowStatistics ==
    \A c \in WindowValues :
        (FeaturesBuilt /\ KeptPixel /\ ConstantWindow(c)) =>
            /\ result["vola_5y"] = IntPx(0)
            /\ result["rol_5y"] = IntPx(c)
            /\ result["rol_3y"] = IntPx(c)

\* a constant window of a nonzero value before a target year that differs
ConstantWindowWitness ==
    /\ FeaturesBuilt /\ KeptPixel /\ ConstantWindow(2)
    /\ tsCollection[TARGET_YEAR - START_YEAR + 1].px = IntPx(0)
    /\ result["vola_5y"] = IntPx(0)
    /\ result["rol_5y"] = IntPx(2)

\* a band of the returned image fails to compute at the pixel
Crashed == \E x \in Suffixes : result[x].k = "error"

\* the series has no image of year y
AbsentYear(y) == y < START_YEAR

\* the statistics of the returned image that need year y
MissingWhereYearAbsent ==
    /\ AbsentYear(TARGET_YEAR - 1) =>
           \A x \in {"chg_ra", "an_cha", "rol_3y", "rol_5y", "vola_5y",
                     "trend", "reco_s", "mean"} : result[x] = MaskedPx
    /\ AbsentYear(TARGET_YEAR - 2) =>
           \A x \in {"trend", "reco_s"} : result[x] = MaskedPx

\* C12: for the target years at the start of the supported range (2000 and
\* 2001), where years T-1..T-5 are absent from the series, the trajectory
\* computation completes without a crash and each statistic that needs an
\* absent year is missing at the pixel.
TrajectoryCompletesAtSeriesStart ==
    (FeaturesBuilt /\ TARGET_YEAR <= START_YEAR + 1) =>
        /\ ~Crashed
        /\ MissingWhereYearAbsent

\* what holds one year after the start of the series
TrajectoryCompletesAfterStart ==
    (FeaturesBuilt /\ TARGET_YEAR = START_YEAR + 1) =>
        /\ ~Crashed
        /\ MissingWhereYearAbsent

\* the images of the series of the years lo..hi that lie before the target
\* year, in the order of the series
YearsBefore(lo, hi) ==
    LET Before(image) ==
            /\ image.composite_year >= lo
            /\ image.composite_year <= hi
            /\ image.composite_year < TARGET_YEAR
    IN  SelectSeq(tsCollection, Before)

HistoryBuilt == mpc \in {"change", "rolling", "trends", "metrics", "combine", "features"}
RollingBuilt == mpc \in {"trends", "metrics", "combine", "features"}
TrendsBuilt == mpc \in {"metrics", "combine", "features"}
MeanBuilt == mpc \in {"combine", "features"}

\* C24: no historical statistic uses the target year's value: rol_3y and
\* reco_s are computed from exactly the series years in [T-3, T-1], rol_5y
\* and vola_5y from exactly those in [T-5, T-1], trend and mean from exactly
\* those strictly before T.
HistoryExcludesTargetYear ==
    /\ HistoryBuilt =>
           /\ histCollection_3y = YearsBefore(TARGET_YEAR - 3, TARGET_YEAR - 1)
           /\ histCollection_5y = YearsBefore(TARGET_YEAR - 5, TARGET_YEAR - 1)
           /\ histCollection = YearsBefore(START_YEAR, TARGET_YEAR)
    /\ RollingBuilt =>
           /\ bands["rol_3y"] =
                  ReduceMean(YearsBefore(TARGET_YEAR - 3, TARGET_YEAR - 1))
           /\ bands["rol_5y"] =
                  ReduceMin(YearsBefore(TARGET_YEAR - 5, TARGET_YEAR - 1))
           /\ bands["vola_5y"] =
                  ReduceStdDev(YearsBefore(TARGET_YEAR - 5, TARGET_YEAR - 1))
    /\ TrendsBuilt =>
           /\ bands["reco_s"] =
                  calculateTrend(YearsBefore(TARGET_YEAR - 3, TARGET_YEAR - 1))
           /\ bands["trend"] =
                  calculateTrend(YearsBefore(START_YEAR, TARGET_YEAR))
    /\ MeanBuilt =>
           bands["mean"] = ReduceMean(YearsBefore(START_YEAR, TARGET_YEAR))

\* the statistics are built for a target year with at least 5 years of
\* history, whose value differs from that of every year before it
HistoryExcludesTargetWitness ==
    /\ FeaturesBuilt
    /\ TARGET_YEAR >= START_YEAR + 5
    /\ Len(histCollection_3y) = 3
    /\ Len(histCollection_5y) = 5
    /\ Len(histCollection) = TARGET_YEAR - START_YEAR
    /\ tsCollection[TARGET_YEAR - START_YEAR + 1].px = IntPx(0)
    /\ \A k \in 1..(TARGET_YEAR - START_YEAR) : tsCollection[k].px = IntPx(2)
    /\ bands["rol_3y"].px = IntPx(2)
    /\ bands["rol_5y"].px = IntPx(2)
    /\ bands["mean"].px = IntPx(2)

\* every band handed to the combination is an image object
ImageComputes == \A x \in Suffixes : bands[x].type = "Image"

\* C25: in the output of the trajectory features every pixel outside the
\* region geometry or not flagged forest in the baseline cover map is
\* masked in every band; no such pixel carries a value, zero included.
OutsidePixelsAreMasked ==
    (FeaturesBuilt /\ ~KeptPixel) =>
        \A x \in Suffixes :
            /\ result[x].k \notin {"num", "array"}
            /\ ImageComputes => result[x] = MaskedPx

\* a pixel that holds values in the region but is not forest, or is forest
\* outside the region, and is masked in the output
OutsideMaskedWitness ==
    /\ FeaturesBuilt
    /\ inAoi # isForest
    /\ ImageComputes
    /\ bands["cur"].px = IntPx(0)
    /\ bands["rol_3y"].px.k = "num"
    /\ result["cur"] = MaskedPx
    /\ result["rol_3y"] = MaskedPx

-----------------------------------------------------------------------------
(* Properties of the feature assembly                                      *)

Assembled == apc \in {"assembled", "computed", "failed"}

\* some requested name is not a band of the concatenated image
UnknownRequested ==
    \/ fullFeatureImage.type # "Image"
    \/ \E k \in 1..Len(optimalFeatures) :
           optimalFeatures[k] \notin NameSet(fullFeatureImage.names)

\* C11: feature assembly has exactly two outcomes. If some requested name is
\* not a band of the concatenated feature image the assembly fails and no
\* pixel is ever computed; otherwise the produced image has exactly the
\* requested bands, in request order.
AssemblyFailsOrKeepsRequest ==
    Assembled =>
        IF UnknownRequested
        THEN /\ selectedFeatures.type = "Error"
             /\ ~pixelsComputed
             /\ apc # "computed"
        ELSE /\ selectedFeatures.type = "Image"
             /\ selectedFeatures.names = optimalFeatures
             /\ reported = NullValue

\* both bands known, requested against the order they have in the image
AssemblyKeepsOrderWitness ==
    /\ apc = "computed"
    /\ optimalFeatures = <<"su_temp", "NBR">>
    /\ selectedFeatures.names = <<"su_temp", "NBR">>

\* a shipped list with an unknown name has failed before any pixel
AssemblyFailsWitness ==
    /\ apc = "failed"
    /\ optimalFeatures = featsList[20]
    /\ TARGET_YEAR > START_YEAR
    /\ ~pixelsComputed

\* the request is one of the 35 lists the script ships
ShippedRequest == optimalFeatures \in NameSet(featsList)

\* C28: for every region id from 1 to 35, every name of the region's list of
\* the mapping script is a band of the concatenated feature image, so that
\* the assembly of a shipped list never meets an unknown band.
ShippedListsAreBands ==
    (Assembled /\ ShippedRequest /\ TARGET_YEAR > START_YEAR) =>
        /\ fullFeatureImage.type = "Image"
        /\ \A k \in 1..Len(optimalFeatures) :
               optimalFeatures[k] \in NameSet(fullFeatureImage.names)

\* the concatenated image itself is built for every target year that has a
\* previous year
ConcatenationIsBuilt ==
    (Assembled /\ TARGET_YEAR > START_YEAR) => fullFeatureImage.type = "Image"

\* no shipped list is ever computed
ShippedListNeverComputed ==
    (Assembled /\ ShippedRequest) => apc # "computed"

\* C29: for every region id from 1 to 35 the ordered list the mapping script
\* requests is the ordered list the training script gives the classifier as
\* its input properties.
RequestIsTrainingList ==
    Assembled =>
        \A r \in 1..Len(featsList) :
            optimalFeatures = featsList[r] =>
                optimalFeatures = optimalFeaturesByZone[r]

\* the two scripts agree for no region at all
NoRegionAgrees ==
    (Assembled /\ ShippedRequest) =>
        \A r \in 1..Len(featsList) :
            optimalFeatures = featsList[r] =>
                /\ optimalFeatures # optimalFeaturesByZone[r]
                /\ NameSet(optimalFeatures) # NameSet(optimalFeaturesByZone[r])

-----------------------------------------------------------------------------
(* Properties of the conversion of samples                                 *)

Converted == ppc = "converted"

\* what the claim says a stored string parses to
ParsesTo(str) ==
    CASE str = "" -> 0
      [] str = "250" -> 250
      [] str = "2" -> 2
      [] OTHER -> 0

\* the samples of the batch that pass the filter of line 252
KeptSamples == SelectSeq(rawSamples, NotNull)

\* C15: parsing a sample never fails the batch: for the required feature and
\* for the label an empty string parses to 0, an unparsable string parses
\* to 0, a numeric string parses to its number, and the label is an integer
\* after parsing.
ParsingNeverFailsTheBatch ==
    Converted =>
        /\ converted.ok
        /\ \A k \in 1..Len(KeptSamples) :
               /\ converted.v[k].NBR = ParsesTo(KeptSamples[k].NBR)
               /\ converted.v[k].label = ParsesTo(KeptSamples[k].label)
               /\ converted.v[k].label \in Int

\* every string of the batch is empty or numeric
AllParsable ==
    \A k \in 1..Len(KeptSamples) :
        KeptSamples[k].NBR \in {"", "250"} /\ KeptSamples[k].label \in {"", "2"}

\* what holds of a batch whose strings are all empty or numeric
ParsingOfParsableBatch ==
    (Converted /\ AllParsable) =>
        /\ converted.ok
        /\ \A k \in 1..Len(KeptSamples) :
               /\ converted.v[k].NBR = ParsesTo(KeptSamples[k].NBR)
               /\ converted.v[k].label = ParsesTo(KeptSamples[k].label)
               /\ converted.v[k].label \in Int

\* the samples that remain after the filter and parse steps
Remaining == IF completeBatch.ok THEN completeBatch.v ELSE <<>>

\* C26: after the filter and parse steps every remaining sample has a
\* non-null value for every required feature and a non-zero value on the
\* quality-indicator band NBR; a sample whose NBR is the empty string
\* (parsed to 0) is dropped.
RemainingSamplesAreComplete ==
    Converted =>
        /\ \A k \in 1..Len(Remaining) :
               /\ Remaining[k].NBR \in Int
               /\ Remaining[k].NBR_chg_ra \in Int
               /\ Remaining[k].NBR # 0
        /\ \A k \in 1..Len(rawSamples) :
               (rawSamples[k].NBR = "" \/ ~NotNull(rawSamples[k])) =>
                   \A j \in 1..Len(Remaining) : Remaining[j].id # rawSamples[k].id

\* a batch of a complete sample and a sample whose NBR is the empty string:
\* the first remains, the second is dropped
EmptyNbrDroppedWitness ==
    /\ Converted
    /\ Len(rawSamples) = 2
    /\ rawSamples[1].NBR = "250" /\ rawSamples[1].NBR_chg_ra = ""
    /\ rawSamples[2].NBR = "" /\ rawSamples[2].NBR_chg_ra = "250"
    /\ completeBatch.ok
    /\ Len(Remaining) = 1
    /\ Remaining[1].id = 1
    /\ Remaining[1].NBR_chg_ra = 0

\* a batch of a complete sample and a sample without a value for a required
\* feature: the second is dropped
NullFeatureDroppedWitness ==
    /\ Converted
    /\ Len(rawSamples) = 2
    /\ rawSamples[1].NBR = "250" /\ rawSamples[1].NBR_chg_ra = "250"
    /\ rawSamples[2].NBR = "250" /\ rawSamples[2].NBR_chg_ra = NullValue
    /\ completeBatch.ok
    /\ Len(Remaining) = 1

-----------------------------------------------------------------------------
(* Properties of the smoothing                                             *)

Smoothed == spc = "smoothed"

Labelled(image) == {p \in Pixels : image[p].k = "num"}

\* every labelled pixel of the raster has the class c
UniformOf(image, c) ==
    /\ Labelled(image) # {}
    /\ \A p \in Labelled(image) : image[p] = IntPx(c)

\* C16: smoothing a classified raster in which every labelled pixel has the
\* same class returns it unchanged: the same set of labelled pixels, each
\* with the same class.
SmoothingKeepsUniformRaster ==
    \A c \in Classes :
        (Smoothed /\ UniformOf(classified, c)) =>
            /\ Labelled(smoothed) = Labelled(classified)
            /\ \A p \in Labelled(classified) : smoothed[p] = IntPx(c)

\* what holds of a uniform raster: the labelled pixels keep their class
SmoothingKeepsUniformLabels ==
    \A c \in Classes :
        (Smoothed /\ UniformOf(classified, c)) =>
            \A p \in Labelled(classified) : smoothed[p] = IntPx(c)

\* what holds of a uniform raster without a masked pixel
SmoothingKeepsFullUniformRaster ==
    \A c \in Classes :
        (Smoothed /\ UniformOf(classified, c) /\ Labelled(classified) = Pixels) =>
            smoothed = classified

\* the pixels the baseline forest mask keeps
ForestPixels == {p \in Pixels : forestMask[p]}

\* C30: in the exported raster every labelled pixel is a forest pixel of the
\* baseline mask: the 3x3 mode filter that follows the forest masking gives
\* no label to a pixel the mask excluded.
ExportedLabelsAreForest ==
    Smoothed => Labelled(smoothed) \subseteq ForestPixels

\* what holds before the filter: the classified raster is labelled on forest
\* pixels only
ClassifiedLabelsAreForest ==
    spc \in {"smooth", "smoothed"} => Labelled(classified) \subseteq ForestPixels

\* what the filter does: it labels every pixel that has a labelled pixel in
\* its 3x3 window
FilterLabelsNeighbours ==
    Smoothed =>
        Labelled(smoothed) =
            {p \in Pixels : Window(p, 1) \cap Labelled(classified) # {}}

-----------------------------------------------------------------------------
(* Properties of the first-order texture                                   *)

TextureBuilt == tpc = "texture"

\* the two texture bands are the statistics of the square window of the
\* radius around each unmasked pixel
TextureOverWindow(radius) ==
    \A p \in Pixels :
        srImage[p].k = "num" =>
            /\ textureFeatures1.mean[p] =
                   MeanOver(srImage, ValidIn(srImage, p, radius))
            /\ textureFeatures1.stdDev[p] =
                   StdDevOver(srImage, ValidIn(srImage, p, radius))

\* C17: first-order texture is computed over a 3x3 square window (radius 1
\* pixel) around each pixel, for each of the 6 bands B1, B2, B3, B4, B5, B7,
\* giving the 12 bands <band>_mean and <band>_stdDev.
TextureOverThreeByThree ==
    TextureBuilt =>
        /\ textureFeatures1.names = <<srBand \o "_mean", srBand \o "_stdDev">>
        /\ Len(FirstOrderTextureBands.names) = Len(SR_BANDS) + 12
        /\ TextureOverWindow(1)

\* what holds: the bands are named as the claim says and are the statistics
\* of the window of the kernel of line 362, 7x7 pixels
TextureOverSevenBySeven ==
    TextureBuilt =>
        /\ textureFeatures1.names = <<srBand \o "_mean", srBand \o "_stdDev">>
        /\ Len(FirstOrderTextureBands.names) = Len(SR_BANDS) + 12
        /\ TextureOverWindow(3)

-----------------------------------------------------------------------------
(* Properties of the spectral indices                                      *)

Indexed == ipc = "indices"

\* the pixel holds a value in both bands and the values are equal
NirEqualsRed ==
    /\ composite.B4.px.k = "num"
    /\ composite.B3.px.k = "num"
    /\ composite.B4.px.r = composite.B3.px.r

\* the band holds the number 0 at the pixel
IsZero(image) == image.px.k = "num" /\ image.px.r = <<0, 1>>

\* C21: for every reflectance input with NIR (B4) equal to RED (B3), the
\* NDVI band produced by the index calculator equals 0.
NdviZeroWhenNirEqualsRed ==
    (Indexed /\ NirEqualsRed) => IsZero(withIndices.NDVI)

\* what holds: NDVI is 0 where NIR equals RED and both are above 0
NdviZeroWhenEqualAndPositive ==
    (Indexed /\ NirEqualsRed /\ composite.B4.px.r[1] > 0) => IsZero(withIndices.NDVI)

\* what holds: NDVI has no value where NIR equals RED and both are below 0
NdviMaskedWhenEqualAndNegative ==
    (Indexed /\ NirEqualsRed /\ composite.B4.px.r[1] < 0) =>
        withIndices.NDVI.px.k = "masked"

\* the difference index of the same pixel is 0 for every equal pair
DviZeroWhenNirEqualsRed ==
    (Indexed /\ NirEqualsRed) => IsZero(withIndices.DVI)
====
